---- MODULE Spec2Model ----
(***************************************************************************)
(* Model of the segmented voice-conversion pipeline of                     *)
(* src/src/vc_infer_pipeline.py: VC.pipeline (index loading, chunk         *)
(* planning, pitch estimation, per-chunk conversion, concatenation and     *)
(* post-processing), VC.vc, VC.get_f0, VC.get_f0_hybrid_computation,       *)
(* cache_harvest_f0 and change_rms.                                        *)
(*                                                                         *)
(* The specifications share the variables:                                 *)
(*   Spec        one invocation of VC.pipeline, with the signal lengths,   *)
(*               the slices, the index and the pitch cache,                *)
(*   SpecF0      calls of VC.get_f0 on short contours (frame by frame),    *)
(*   SpecCoarse  the coarse-pitch mapping at the end of VC.get_f0,         *)
(*   SpecThreads threads inside the harvest branch of VC.get_f0,           *)
(*   SpecRuns    a sequence of invocations, by what each leaves behind,    *)
(*   SpecPost    the tail of VC.pipeline after np.concatenate (loudness    *)
(*               matching, peak normalisation, int16 quantisation) on      *)
(*               short signals (sample by sample),                         *)
(*   SpecVc      one call of VC.vc, frame by frame,                        *)
(*   SpecOverride the f0 override of VC.get_f0,                            *)
(*   SpecHandlers the request handlers of src/handler.py,                  *)
(*               src/src/handler.py and src/src/api_server.py, by what     *)
(*               becomes of the temporary input file.                      *)
(***************************************************************************)
EXTENDS Integers, Sequences, FiniteSets, TLC

VARIABLES
    pc,         \* position of the pipeline invocation
    inp,        \* arguments of the invocation (and the VC object's config)
    index,      \* the local index of VC.pipeline: "None" or "loaded"
    idxLog,     \* TRUE once traceback.print_exc() ran for the index
    idxReads,   \* number of faiss.read_index calls
    opt_ts,     \* the raw cut offsets of VC.pipeline
    s,          \* loop variable s of VC.pipeline
    t,          \* loop variable t of VC.pipeline (NoneT while None)
    k,          \* number of cuts already processed
    calls,      \* one record per VC.vc call of the invocation
    audio_opt,  \* lengths of the trimmed pieces appended to audio_opt
    pitchLen,   \* frames of pitch / pitchf held by VC.pipeline, NoPitch if None
    cache,      \* contents of the lru_cache of cache_harvest_f0: key -> contour
    path2wav,   \* the module dictionary input_audio_path2wav: path -> waveform
    ran,        \* the pitch estimators that ran, in order
    post,       \* what the tail of the pipeline did (lengths only)
    err,        \* the exception that ended the invocation, "" if none
    f0,         \* SpecF0: arguments and results of get_f0 calls
    sig,        \* SpecPost, SpecVc: the signal or features being processed
    req         \* SpecHandlers: the request served and its temporary file

vars == <<pc, inp, index, idxLog, idxReads, opt_ts, s, t, k, calls, audio_opt,
          pitchLen, cache, path2wav, ran, post, err, f0, sig, req>>

pipeVars == <<pc, inp, index, idxLog, idxReads, opt_ts, s, t, k, calls,
              audio_opt, pitchLen, cache, path2wav, ran, post, err>>

-----------------------------------------------------------------------------
(* Program constants.                                                      *)

sr == 16000

window == 160

FiltPadLen == 18

HopsPerFeature == 2

(* tf0 = self.sr // self.window *)
F0FramesPerSecond == sr \div window

(* Bounds of the model.                                                    *)

MaxXPad == 1

MaxXQuery == 2

MaxXCenter == 2

MaxXMax == 2

MaxDips == 1

-----------------------------------------------------------------------------
(* Helpers.                                                                *)

Max(a, b) == IF a >= b THEN a ELSE b

Min(a, b) == IF a <= b THEN a ELSE b

SetMin(S) == CHOOSE x \in S : \A y \in S : x <= y

RECURSIVE Flatten(_)
Flatten(q) == IF q = <<>> THEN <<>> ELSE Head(q) \o Flatten(Tail(q))

RECURSIVE SumSeq(_)
SumSeq(q) == IF q = <<>> THEN 0 ELSE Head(q) + SumSeq(Tail(q))

(* Stands for None in the loop variable t and in a slice bound.            *)
NoneT == -1000000

(* Stands for pitch = pitchf = None.                                       *)
NoPitch == -1

(* Python's normalisation of one slice bound i on a sequence of length n.  *)
PyIdx(i, n) == IF i < 0 THEN Max(i + n, 0) ELSE Min(i, n)

(* a[lo:hi] on a sequence of length n: the normalised bounds.              *)
PySlice(n, lo, hi) ==
    LET a == PyIdx(lo, n)
        b == PyIdx(hi, n)
    IN  [lo |-> a, hi |-> Max(a, b)]

PySliceLen(n, lo, hi) == PySlice(n, lo, hi).hi - PySlice(n, lo, hi).lo

(* a[lo:] on a sequence of length n; lo = NoneT stands for a[None:].       *)
PySliceFrom(n, lo) ==
    IF lo = NoneT THEN [lo |-> 0, hi |-> n]
    ELSE [lo |-> PyIdx(lo, n), hi |-> n]

-----------------------------------------------------------------------------
(* VC.__init__: the sample counts derived from the configuration.          *)

t_pad(c) == sr * c.x_pad

t_pad_tgt(c, tgt_sr) == tgt_sr * c.x_pad

t_pad2(c) == t_pad(c) * 2

t_query(c) == sr * c.x_query

t_center(c) == sr * c.x_center

t_max(c) == sr * c.x_max

-----------------------------------------------------------------------------
(* Chunk planning, VC.pipeline lines 513-528.                              *)

(* |audio_sum[i]|: the absolute one-frame moving sum of the filtered       *)
(* signal. The waveform is given by its quiet points: the envelope is 0 at *)
(* the offsets in dips and 1 elsewhere, so the minimum over a slice is 0   *)
(* when a quiet point lies in it and 1, taken first at its start, if not.  *)
AbsSum(dips, i) == IF i \in dips THEN 0 ELSE 1

(* audio_pad.shape[0] > self.t_max, with audio_pad = audio padded by       *)
(* window // 2 on both sides.                                              *)
NeedsCutsCenter(c, n) == n + 2 * (window \div 2) > t_center(c)

NeedsCuts(c, n) == n + 2 * (window \div 2) > t_max(c)

(* range(self.t_center, audio.shape[0], self.t_center)                     *)
CutTargets(c, n) ==
    IF n > t_center(c)
    THEN [j \in 1..((n - 1) \div t_center(c)) |-> j * t_center(c)]
    ELSE <<>>

(* The slice audio_sum[t - t_query : t + t_query] of an array of n items.  *)
QuerySlice(c, n, tt) == PySlice(n, tt - t_query(c), tt + t_query(c))

(* np.abs(...).min() over the slice (the slice is not empty).              *)
SliceMin(dips, sl) ==
    SetMin({AbsSum(dips, i) :
               i \in {sl.lo} \cup {d \in dips : sl.lo <= d /\ d < sl.hi}})

(* np.where(abs == abs.min())[0][0]: the first index, relative to the      *)
(* start of the slice, at which the minimum is taken.                      *)
FirstMinIndex(dips, sl) ==
    LET m == SliceMin(dips, sl)
    IN  IF m = 0
        THEN SetMin({d \in dips : sl.lo <= d /\ d < sl.hi}) - sl.lo
        ELSE 0

(* One opt_ts entry: t - t_query + first index of the minimum.             *)
RawCutNoBack(c, n, dips, tt) ==
    tt + FirstMinIndex(dips, QuerySlice(c, n, tt))

RawCut(c, n, dips, tt) ==
    tt - t_query(c) + FirstMinIndex(dips, QuerySlice(c, n, tt))

(* .min() of an empty slice raises ValueError.                             *)
PlanRaises(c, n, dips) ==
    /\ NeedsCuts(c, n)
    /\ \E j \in DOMAIN CutTargets(c, n) :
          LET sl == QuerySlice(c, n, CutTargets(c, n)[j])
          IN  sl.hi <= sl.lo

Plan(c, n, dips) ==
    IF NeedsCuts(c, n)
    THEN [j \in DOMAIN CutTargets(c, n) |->
             RawCut(c, n, dips, CutTargets(c, n)[j])]
    ELSE <<>>

(* t = t // self.window * self.window                                      *)
SnapNone(tt) == tt

Snap(tt) == (tt \div window) * window

(* The cut offsets the chunk loop uses.                                    *)
UsedCuts(cuts) == [j \in DOMAIN cuts |-> Snap(cuts[j])]

-----------------------------------------------------------------------------
(* Loading the reference index, VC.pipeline lines 497-512.                 *)

(* The condition under which faiss.read_index is called.                   *)
IndexWantedAnyRate(i) == i.file_index # "" /\ i.fileExists

IndexWanted(i) ==
    /\ i.file_index # ""
    /\ i.fileExists
    /\ i.index_rate # 0

(* try: read_index / reconstruct_n; except: print_exc, index = None.       *)
(* The result names what propagates out of the try statement.              *)
LoadIndexNoCatch(i) ==
    IF IndexWanted(i)
    THEN IF i.fileCorrupt
         THEN [index |-> "None", logged |-> FALSE, reads |-> 1, raised |-> TRUE]
         ELSE [index |-> "loaded", logged |-> FALSE, reads |-> 1,
               raised |-> FALSE]
    ELSE [index |-> "None", logged |-> FALSE, reads |-> 0, raised |-> FALSE]

LoadIndex(i) ==
    IF IndexWanted(i)
    THEN IF i.fileCorrupt
         THEN [index |-> "None", logged |-> TRUE, reads |-> 1, raised |-> FALSE]
         ELSE [index |-> "loaded", logged |-> FALSE, reads |-> 1,
               raised |-> FALSE]
    ELSE [index |-> "None", logged |-> FALSE, reads |-> 0, raised |-> FALSE]

-----------------------------------------------------------------------------
(* The external models called by VC.vc.                                    *)

(* model.extract_features: one feature frame per two analysis hops; loss   *)
(* is the number of samples the extractor's receptive field costs at the   *)
(* edge of the segment.                                                    *)
ExtractFrames(len, loss) ==
    Max(0, (len - loss) \div (HopsPerFeature * window))

(* net_g.infer: tgt_sr / 100 output samples per feature frame.             *)
GenLen(frames, tgt_sr) == frames * (tgt_sr \div F0FramesPerSecond)

-----------------------------------------------------------------------------
(* VC.vc, lines 372-472, on a segment of len samples with pl pitch frames  *)
(* (NoPitch when pitch and pitchf are None).                               *)

(* The retrieval condition of lines 409-413.                               *)
Retrieves(idx, rate) == idx # "None" /\ rate # 0

(* Lines 428-431: rate * retrieved + (1 - rate) * feats, rate in percent.  *)
Blend(q, r, rate) == (rate * r + (100 - rate) * q) \div 100

(* F.interpolate(..., scale_factor=2), line 433: the frame count.          *)
Upsampled(frames) == HopsPerFeature * frames

(* F.interpolate of line 433 on extracted frames: torch raises             *)
(* RuntimeError (input and output sizes should be greater than 0) when     *)
(* the extractor returned no frame.                                        *)
InterpolateRaises(extracted) == extracted = 0

(* The condition of lines 407, 434 and 446, protect in percent.            *)
Protects(protect, pl) == protect < 50 /\ pl # NoPitch

(* feats * pitchff of line 451, feats of shape [1, frames, C] and pitchff  *)
(* of shape [1, pitchN, 1]: torch raises RuntimeError unless the two frame *)
(* counts are equal or one of them is 1.                                   *)
BroadcastRaises(frames, pitchN) ==
    frames # pitchN /\ frames # 1 /\ pitchN # 1

(* interpRaised: line 433 raised; raised: line 451 raised; in both cases   *)
(* net_g.infer was not called.                                             *)
vc(len, pl, idx, i) ==
    LET frames  == Upsampled(ExtractFrames(len, i.extLoss))
        interp  == InterpolateRaises(ExtractFrames(len, i.extLoss))
        blended == Retrieves(idx, i.index_rate)
        feats   == IF blended THEN Blend(i.featQ, i.featR, i.index_rate)
                   ELSE i.featQ
        p_len0  == len \div window
        p_len   == IF frames < p_len0 THEN frames ELSE p_len0
        pitchN  == IF pl = NoPitch THEN NoPitch
                   ELSE IF frames < p_len0 THEN Min(pl, p_len) ELSE pl
        prot    == Protects(i.protect, pl)
    IN  [len      |-> len,
         pitchIn  |-> pl,
         frames   |-> frames,
         extracted |-> i.featQ,
         feats    |-> feats,
         blended  |-> blended,
         p_len    |-> p_len,
         pitch    |-> pitchN,
         protected |-> prot,
         interpRaised |-> interp,
         raised   |-> ~interp /\ prot /\ BroadcastRaises(frames, pitchN),
         out      |-> GenLen(frames, i.tgt_sr)]

(* audio1[self.t_pad_tgt : -self.t_pad_tgt]: the length kept.              *)
Trimmed(out, c, tgt_sr) ==
    PySliceLen(out, t_pad_tgt(c, tgt_sr), 0 - t_pad_tgt(c, tgt_sr))

(* len(audio_pad) after np.pad(audio, (t_pad, t_pad)), line 533.           *)
PadLen(i) == i.n + 2 * t_pad(i.cfg)

(* p_len of VC.pipeline, line 534.                                         *)
PipeP_len(i) == PadLen(i) \div window

-----------------------------------------------------------------------------
(* Pitch contours: sequences of Hz values, 0 for an unvoiced frame.        *)

Estimators == {"pm", "harvest", "dio", "crepe", "crepe-tiny", "mangio-crepe",
               "mangio-crepe-tiny", "rmvpe"}

(* The f0_method string: a plain name, or "hybrid[a+b+...]" given by the   *)
(* names between the brackets (lines 188-191).                             *)
Single(m) == [hybrid |-> FALSE, names |-> <<m>>]

Hybrid(ns) == [hybrid |-> TRUE, names |-> ns]

(* The raw contour an external estimator returns for waveform x. A          *)
(* waveform is given by what the estimators hear in it: x.len frames that  *)
(* repeat x.seed; the second family of estimators hears it one seed step   *)
(* later.                                                                  *)
EstShift(m) == IF m \in {"dio", "crepe-tiny", "mangio-crepe-tiny"} THEN 1 ELSE 0

EstOut(m, x) ==
    [j \in 1..x.len |-> x.seed[((j - 1 + EstShift(m)) % Len(x.seed)) + 1]]

Zeros(n) == [j \in 1..n |-> 0]

(* Lines 290-294 and 211-215: np.pad to p_len when the contour is shorter. *)
PadPm(c, p_len) ==
    LET pad_size == (p_len - Len(c) + 1) \div 2
        right    == p_len - Len(c) - pad_size
    IN  IF pad_size > 0 \/ right > 0
        THEN Zeros(pad_size) \o c \o Zeros(right)
        ELSE c

Median3(a, b, c) == a + b + c - Max(a, Max(b, c)) - Min(a, Min(b, c))

(* signal.medfilt(f0, 3): zero-padded median of three.                     *)
Medfilt3(c) ==
    [j \in 1..Len(c) |->
        Median3(IF j = 1 THEN 0 ELSE c[j - 1], c[j],
                IF j = Len(c) THEN 0 ELSE c[j + 1])]

(* f0[1:]                                                                  *)
DropFirst(c) == IF c = <<>> THEN <<>> ELSE Tail(c)

(* get_f0_crepe_computation, lines 127-137: values below 0.001 become NaN, *)
(* the contour is interpolated linearly at the p_len positions             *)
(* i * len / p_len and NaN becomes 0 (interpolated values are floored).    *)
Resize(c, p_len) ==
    [i1 \in 1..(IF Len(c) = 0 THEN 0 ELSE p_len) |->
        LET pos == (i1 - 1) * Len(c)
            j   == pos \div p_len
            r   == pos % p_len
        IN  IF r = 0 \/ j + 1 = Len(c) THEN c[j + 1]
            ELSE IF c[j + 1] = 0 \/ c[j + 2] = 0 THEN 0
            ELSE (c[j + 1] * (p_len - r) + c[j + 2] * r) \div p_len]

(* f0 *= pow(2, f0_up_key / 12), line 346, for whole octaves upward.       *)
RECURSIVE Pow2(_)
Pow2(e) == IF e <= 0 THEN 1 ELSE 2 * Pow2(e - 1)

Scale(c, key) == [j \in 1..Len(c) |-> c[j] * Pow2(key \div 12)]

(* d[key] = v on a dictionary d.                                           *)
Put(d, key, v) ==
    [q \in DOMAIN d \cup {key} |-> IF q = key THEN v ELSE d[q]]

EmptyDict == [q \in {} |-> 0]

(* cache_harvest_f0 under @lru_cache, lines 27-38: the key is the path     *)
(* (the other arguments are the same in every call); a miss runs harvest   *)
(* on input_audio_path2wav[path] and stores the array.                     *)
CacheHarvest(cch, p2w, path) ==
    IF path \in DOMAIN cch
    THEN [val |-> cch[path], cache |-> cch, ran |-> <<>>]
    ELSE [val   |-> EstOut("harvest", p2w[path]),
          cache |-> Put(cch, path, EstOut("harvest", p2w[path])),
          ran   |-> <<"harvest">>]

(* One component of the hybrid stack, lines 198-249: the contour pushed,   *)
(* none = TRUE when f0 stays None.                                         *)
Component(m, a, harvested) ==
    CASE m = "pm" ->
            [none |-> FALSE, c |-> PadPm(EstOut(m, a.x), a.p_len)]
      [] m \in {"crepe", "crepe-tiny"} ->
            [none |-> FALSE, c |-> DropFirst(EstOut(m, a.x))]
      [] m \in {"mangio-crepe", "mangio-crepe-tiny"} ->
            [none |-> FALSE, c |-> Resize(EstOut(m, a.x), a.p_len)]
      [] m = "harvest" ->
            [none |-> FALSE,
             c |-> DropFirst(IF a.filter_radius > 2 THEN Medfilt3(harvested)
                             ELSE harvested)]
      [] m = "dio" ->
            [none |-> FALSE, c |-> DropFirst(Medfilt3(EstOut(m, a.x)))]
      [] OTHER -> [none |-> TRUE, c |-> <<>>]

HybridKnown == {"pm", "crepe", "crepe-tiny", "mangio-crepe",
                "mangio-crepe-tiny", "harvest", "dio"}

(* Median of the values of a non-empty sequence (np.nanmedian on one       *)
(* frame; the mean of the two middle values is floored).                   *)
MedianOf(vs) ==
    LET n == Len(vs)
        rank(j) == Cardinality({q \in 1..n :
                       vs[q] < vs[j] \/ (vs[q] = vs[j] /\ q < j)}) + 1
        at(r) == vs[CHOOSE j \in 1..n : rank(j) = r]
    IN  IF n % 2 = 1 THEN at((n + 1) \div 2)
        ELSE (at(n \div 2) + at(n \div 2 + 1)) \div 2

(* The estimators that run for the hybrid list, in order: harvest runs    *)
(* only where the cache misses (hran), an unknown name runs nothing.       *)
HybridRuns(names, hran) ==
    Flatten([j \in DOMAIN names |->
                IF names[j] = "harvest"
                THEN (IF \A q \in 1..(j - 1) : names[q] # "harvest"
                      THEN hran ELSE <<>>)
                ELSE IF names[j] \in HybridKnown THEN <<names[j]>>
                ELSE <<>>])

(* Lines 251-260 on the stack of contours: len(None) raises TypeError,     *)
(* np.nanmedian raises on contours of different lengths.                   *)
HybridStackRaises(stack) ==
    \/ \E j \in DOMAIN stack : stack[j].none
    \/ \E j \in DOMAIN stack : Len(stack[j].c) # Len(stack[1].c)

HybridMedian(stack) ==
    IF Len(stack) = 1 THEN stack[1].c
    ELSE [f \in 1..Len(stack[1].c) |->
             MedianOf([j \in DOMAIN stack |-> stack[j].c[f]])]

HybridResult(a, names, hasH, h, stack, cch) ==
    [raised |-> HybridStackRaises(stack),
     c      |-> IF HybridStackRaises(stack) THEN <<>> ELSE HybridMedian(stack),
     view   |-> Len(names) = 1 /\ names[1] = "harvest" /\ a.filter_radius <= 2,
     cache  |-> IF hasH THEN h.cache ELSE cch,
     ran    |-> HybridRuns(names, h.ran)]

HybridStack(a, names, hval) ==
    [j \in DOMAIN names |-> Component(names[j], a, hval)]

HybridWith(a, names, hasH, h, cch) ==
    HybridResult(a, names, hasH, h,
                 HybridStack(a, names, IF hasH THEN h.val ELSE <<>>), cch)

(* get_f0_hybrid_computation, lines 175-260. view = TRUE when the array    *)
(* returned shares memory with the cached harvest array (f0[1:] of it).    *)
get_f0_hybrid_computation(a, cch, p2w) ==
    HybridWith(a, a.f0_method.names,
               \E j \in DOMAIN a.f0_method.names :
                  a.f0_method.names[j] = "harvest",
               IF \E j \in DOMAIN a.f0_method.names :
                     a.f0_method.names[j] = "harvest"
               THEN CacheHarvest(cch, p2w, a.path)
               ELSE [val |-> <<>>, cache |-> cch, ran |-> <<>>],
               cch)

(* The method branches of get_f0, lines 279-344. bound = FALSE when no     *)
(* branch assigns f0; view is the number of leading frames of the cached   *)
(* harvest array that the returned array does not cover, NoView when it    *)
(* is an array of its own.                                                 *)
NoView == -1

BranchResult(c, view, cch, p2w, runs) ==
    [bound |-> TRUE, raised |-> FALSE, view |-> view, cache |-> cch,
     path2wav |-> p2w, ran |-> runs, c |-> c]

HybridBranch(p1, hy) ==
    [bound |-> TRUE, raised |-> hy.raised,
     view |-> IF hy.view THEN 1 ELSE NoView,
     cache |-> hy.cache, path2wav |-> p1, ran |-> hy.ran, c |-> hy.c]

HarvestBranch(a, p1, h) ==
    BranchResult(IF a.filter_radius > 2 THEN Medfilt3(h.val) ELSE h.val,
                 IF a.filter_radius > 2 THEN NoView ELSE 0,
                 h.cache, p1, h.ran)

SingleBranch(m, a, cch, p2w) ==
    CASE m = "pm" ->
            BranchResult(PadPm(EstOut(m, a.x), a.p_len), NoView, cch, p2w,
                         <<m>>)
      [] m = "harvest" ->
            HarvestBranch(a, Put(p2w, a.path, a.x),
                          CacheHarvest(cch, Put(p2w, a.path, a.x), a.path))
      [] m = "dio" ->
            BranchResult(Medfilt3(EstOut(m, a.x)), NoView, cch, p2w, <<m>>)
      [] m \in {"crepe", "crepe-tiny", "rmvpe"} ->
            BranchResult(EstOut(m, a.x), NoView, cch, p2w, <<m>>)
      [] m \in {"mangio-crepe", "mangio-crepe-tiny"} ->
            BranchResult(Resize(EstOut(m, a.x), a.p_len), NoView, cch, p2w,
                         <<m>>)
      [] OTHER ->
            [bound |-> FALSE, raised |-> FALSE, view |-> NoView,
             cache |-> cch, path2wav |-> p2w, ran |-> <<>>, c |-> <<>>]

F0Branches(a, cch, p2w) ==
    IF a.f0_method.hybrid
    THEN HybridBranch(Put(p2w, a.path, a.x),
                      get_f0_hybrid_computation(a, cch,
                                                Put(p2w, a.path, a.x)))
    ELSE SingleBranch(a.f0_method.names[1], a, cch, p2w)

-----------------------------------------------------------------------------
(* The f0 override of get_f0, lines 348-359.                               *)

(* np.rint(num / den) for den > 0: to the nearest integer, a tie to the    *)
(* even one.                                                               *)
RintDiv(num, den) ==
    LET fl == num \div den
        r2 == 2 * (num % den)
    IN  IF r2 < den THEN fl
        ELSE IF r2 > den THEN fl + 1
        ELSE IF fl % 2 = 0 THEN fl ELSE fl + 1

(* A value cast to int16 wraps around modulo 2^16.                         *)
ToInt16(v) == ((v + 32768) % 65536) - 32768

(* np.round((max - min) * tf0 + 1), as a whole number of frames. The time  *)
(* column is float32 (line 543) and the product is float64 or float32      *)
(* depending on the NumPy promotion rules in force: a span whose exact     *)
(* product lies halfway between two integers is rounded to either of them  *)
(* (1.005 s gives 101.49999952 in float64 and 101.5 in float32).           *)
OverrideFrames(span) ==
    IF (span * F0FramesPerSecond + 1000) % 1000 = 500
    THEN {(span * F0FramesPerSecond + 1000) \div 1000,
          (span * F0FramesPerSecond + 1000) \div 1000 + 1}
    ELSE {RintDiv(span * F0FramesPerSecond + 1000, 1000)}

(* .astype("int16") of a float: a value that fits is kept; for one that    *)
(* does not the conversion is undefined in C, and yields the value wrapped *)
(* modulo 2^16 or the largest int16, depending on the build.               *)
AsInt16(v) ==
    IF v >= -32768 /\ v <= 32767 THEN {v} ELSE {ToInt16(v), 32767}

(* delta_t of line 350 for a file whose time column spans span             *)
(* milliseconds: every value the build can produce.                        *)
DeltaT(span) == UNION {AsInt16(v) : v \in OverrideFrames(span)}

(* inp_f0: None, or the file read by lines 535-545, given by the span of   *)
(* its time column in milliseconds, the value hz that every row of its     *)
(* pitch column holds, and the delta_t that line 350 computes from it.     *)
NoOverride == [present |-> FALSE, span |-> 0, hz |-> 0, delta_t |-> 0]

OverrideFile(span, hz) ==
    {[present |-> TRUE, span |-> span, hz |-> hz, delta_t |-> d] :
        d \in DeltaT(span)}

(* Lines 353-356: replace_f0 has max(delta_t, 0) frames (np.interp over    *)
(* range(delta_t)); shape is the number of frames of a contour of n frames *)
(* from x_pad * tf0 on that it covers.                                     *)
OverrideShape(n, x_pad, d) ==
    PySliceLen(n, x_pad * F0FramesPerSecond,
               x_pad * F0FramesPerSecond + Max(d, 0))

(* Lines 348-358 on the contour c:                                         *)
(* f0[x_pad * tf0 : x_pad * tf0 + len(replace_f0)] = replace_f0[:shape].   *)
Overridden(c, a) ==
    IF ~a.inp_f0.present THEN c
    ELSE [j \in 1..Len(c) |->
             IF /\ j > a.x_pad * F0FramesPerSecond
                /\ j <= a.x_pad * F0FramesPerSecond
                           + OverrideShape(Len(c), a.x_pad, a.inp_f0.delta_t)
             THEN a.inp_f0.hz
             ELSE c[j]]

-----------------------------------------------------------------------------
(* Lines 346-359 on the result b of the branches: an unassigned f0 raises  *)
(* UnboundLocalError at line 346; the in-place f0 *= ... (line 346) and    *)
(* the slice assignment of the override (line 357) write through to the    *)
(* cached array when f0 shares its memory. final is f0 after both.         *)
InPlace(a, b, final) ==
    IF ~b.bound \/ b.raised
    THEN [raised |-> TRUE, f0 |-> <<>>, cache |-> b.cache,
          path2wav |-> b.path2wav, ran |-> b.ran]
    ELSE [raised |-> FALSE, f0 |-> final,
          cache |-> IF b.view = NoView THEN b.cache
                    ELSE Put(b.cache, a.path,
                             SubSeq(b.cache[a.path], 1,
                                    Min(b.view, Len(b.cache[a.path])))
                             \o final),
          path2wav |-> b.path2wav, ran |-> b.ran]

F0Final(a, b) == InPlace(a, b, Overridden(Scale(b.c, a.f0_up_key), a))

(* get_f0, lines 262-370: the fine contour f0bak returned, with the        *)
(* effects on the cache and on input_audio_path2wav.                       *)
get_f0(a, cch, p2w) == F0Final(a, F0Branches(a, cch, p2w))

-----------------------------------------------------------------------------
(* The invocations of VC.pipeline that the model runs.                     *)

Configs ==
    [x_pad : 0..MaxXPad, x_query : 1..MaxXQuery, x_center : 1..MaxXCenter,
     x_max : 1..MaxXMax]

AudioLens == {0, 10, 20000, 31900, 40160, 70000}

DipPositions == {17600, 17760, 39000}

DipSets == {d \in SUBSET DipPositions : Cardinality(d) <= MaxDips}

MethodNames ==
    {Single(m) : m \in Estimators \cup {"foo"}}
    \cup {Hybrid(<<m>>) : m \in HybridKnown \cup {"foo"}}
    \cup {Hybrid(<<"pm", "foo">>), Hybrid(<<"harvest", "foo">>),
          Hybrid(<<"pm", "harvest">>), Hybrid(<<"harvest", "dio", "crepe">>)}

BaseInp ==
    [cfg |-> [x_pad |-> 1, x_query |-> 1, x_center |-> 2, x_max |-> 2],
     n |-> 40160, dips |-> {17760}, extLoss |-> 80,
     if_f0 |-> 1, f0_method |-> Single("pm"), rawDelta |-> 0,
     filter_radius |-> 3, f0_up_key |-> 0,
     file_index |-> "", fileExists |-> FALSE, fileCorrupt |-> FALSE,
     index_rate |-> 50, featQ |-> 10, featR |-> 30,
     protect |-> 33,
     tgt_sr |-> 40000, rms_mix_rate |-> 100, resample_sr |-> 0,
     path |-> "song.wav", inp_f0 |-> NoOverride,
     failAt |-> 0, failStage |-> ""]

(* Every configuration, length and set of quiet points.                    *)
PlanInputs ==
    {[BaseInp EXCEPT !.cfg = c, !.n = n, !.dips = d, !.extLoss = e,
                     !.if_f0 = f] :
        c \in Configs, n \in AudioLens, d \in DipSets, e \in {0, 80},
        f \in {0, 1}}

(* Every state of the index file and every blend ratio (in percent).       *)
IndexInputs ==
    {[BaseInp EXCEPT !.file_index = fi, !.fileExists = ex,
                     !.fileCorrupt = co, !.index_rate = r, !.if_f0 = f] :
        fi \in {"", "added.index"}, ex \in BOOLEAN, co \in BOOLEAN,
        r \in {0, 50, 100}, f \in {0, 1}}

(* Every method identifier, raw contour length and filter radius.          *)
MethodInputs ==
    {[BaseInp EXCEPT !.f0_method = m, !.rawDelta = rd, !.filter_radius = fr,
                     !.f0_up_key = key, !.if_f0 = f] :
        m \in MethodNames, rd \in {-1, 0, 1}, fr \in {0, 3}, key \in {0, 12},
        f \in {0, 1}}

(* Every loudness mix (in percent) and output rate.                        *)
PostInputs ==
    {[BaseInp EXCEPT !.rms_mix_rate = r, !.resample_sr = rs, !.tgt_sr = ts] :
        r \in {0, 25, 100}, rs \in {0, 8000, 16000, 40000, 48000},
        ts \in {40000, 48000}}

(* The external model that raises and the VC.vc call in which it does.     *)
FailInputs ==
    {[BaseInp EXCEPT !.n = n, !.failAt = j, !.failStage = st, !.if_f0 = f] :
        n \in {40160, 70000}, j \in {1, 2, 3},
        st \in {"extract_features", "infer"}, f \in {0, 1}}

(* Two seconds of silence (the envelope is 0 at every offset), with every  *)
(* loudness mix, output rate and extractor.                                *)
SilentInputs ==
    {[BaseInp EXCEPT !.n = 2 * sr, !.dips = 0..(2 * sr - 1), !.extLoss = e,
                     !.if_f0 = f, !.rms_mix_rate = r, !.resample_sr = rs] :
        e \in {0, 80}, f \in {0, 1}, r \in {0, 50, 100}, rs \in {0, 48000}}

(* Parameters outside their ranges: blend ratio, loudness mix and protect  *)
(* in percent, filter radius, output rate.                                 *)
RangeInputs ==
    {[BaseInp EXCEPT !.file_index = "added.index", !.fileExists = TRUE,
                     !.index_rate = ir, !.rms_mix_rate = r,
                     !.filter_radius = fr, !.resample_sr = rs,
                     !.protect = pr,
                     !.f0_method = Single("harvest")] :
        ir \in {-50, 50, 150}, r \in {-50, 100, 150}, fr \in {-1, 3},
        rs \in {0, 8000}, pr \in {-10, 33, 50}}

(* Pitch conditioning switched off, by 0 and by a value other than 0, with *)
(* every kind of method and with and without cuts.                         *)
PitchOffInputs ==
    {[BaseInp EXCEPT !.if_f0 = f, !.f0_method = m, !.n = n] :
        f \in {0, 2},
        m \in {Single("pm"), Single("harvest"), Hybrid(<<"pm", "harvest">>),
               Single("foo")},
        n \in {20000, 40160, 70000}}

(* Every protect on either side of 0.5, with segments whose pitch slice    *)
(* has as many frames as the features, one fewer, and one more than the    *)
(* extractor leaves; with and without cuts.                                *)
ProtectInputs ==
    {[BaseInp EXCEPT !.n = n, !.dips = d, !.extLoss = e, !.f0_method = m,
                     !.rawDelta = rd, !.filter_radius = fr, !.protect = pr,
                     !.if_f0 = f, !.cfg.x_pad = xp, !.rms_mix_rate = r] :
        n \in {32000, 40160}, d \in {{}, {17600}, {17760}}, e \in {0, 80},
        m \in {Single("pm"), Single("crepe")}, rd \in {-1, 0},
        fr \in {0, 3}, pr \in {0, 33, 50}, f \in {0, 1}, xp \in {0, 1},
        r \in {50, 100}}

(* An f0 file (f0_file, lines 535-545) of 0.01 s, of 1.005 s and of 4 s at  *)
(* 300 Hz, with the methods whose contour is the cached array, a view of   *)
(* it, or an array of its own.                                             *)
OverrideInputs ==
    {[BaseInp EXCEPT !.inp_f0 = ov, !.f0_method = m, !.filter_radius = fr,
                     !.f0_up_key = key, !.cfg.x_pad = xp, !.if_f0 = f] :
        ov \in OverrideFile(10, 300) \cup OverrideFile(1005, 300)
                \cup OverrideFile(4000, 300),
        m \in {Single("harvest"), Hybrid(<<"harvest">>), Single("pm")},
        fr \in {0, 3}, key \in {0, 12}, xp \in {0, 1}, f \in {0, 1}}

Inputs ==
    PlanInputs \cup IndexInputs \cup MethodInputs \cup PostInputs
    \cup FailInputs \cup SilentInputs \cup RangeInputs \cup PitchOffInputs
    \cup ProtectInputs \cup OverrideInputs

(* The waveform audio_pad as the estimators hear it: p_len + rawDelta      *)
(* frames of one tone.                                                     *)
PaddedWav(i) == [len |-> PadLen(i) \div window + i.rawDelta, seed |-> <<100>>]

F0Args(i) ==
    [path |-> i.path, x |-> PaddedWav(i), p_len |-> PipeP_len(i),
     f0_up_key |-> i.f0_up_key, f0_method |-> i.f0_method,
     filter_radius |-> i.filter_radius, inp_f0 |-> i.inp_f0,
     x_pad |-> i.cfg.x_pad]

-----------------------------------------------------------------------------
(* The tail of VC.pipeline, lines 638-653, on lengths.                     *)

(* if rms_mix_rate != 1, the rate given in percent.                        *)
RmsApplied(rate) == rate # 100

(* if resample_sr >= 16000 and tgt_sr != resample_sr                       *)
Resamples(tgt_sr, resample_sr) == resample_sr >= sr /\ tgt_sr # resample_sr

(* librosa.resample: ceil(n * target_sr / orig_sr) samples.                *)
ResampleLen(n, orig, target) ==
    ((n \div 100) * (target \div 100) * 100 + (n % 100) * (target \div 100)
     + (orig \div 100) - 1) \div (orig \div 100)

-----------------------------------------------------------------------------
(* One invocation of VC.pipeline.                                          *)

PipeInit(pc0) ==
    /\ pc = pc0
    /\ inp = BaseInp
    /\ index = "None"
    /\ idxLog = FALSE
    /\ idxReads = 0
    /\ opt_ts = <<>>
    /\ s = 0
    /\ t = NoneT
    /\ k = 0
    /\ calls = <<>>
    /\ audio_opt = <<>>
    /\ pitchLen = NoPitch
    /\ cache = EmptyDict
    /\ path2wav = EmptyDict
    /\ ran = <<>>
    /\ post = [rms |-> FALSE, resampled |-> FALSE, len |-> 0]
    /\ err = ""

Init ==
    /\ PipeInit("idle")
    /\ req = [pc |-> "off"]
    /\ f0 = [pc |-> "off"]
    /\ sig = [pc |-> "off"]

(* The exception raised by lines 497-534, "" if none: one that leaves the  *)
(* try statement of the index, the ValueError of filtfilt on at most       *)
(* FiltPadLen samples, the ValueError of .min() on an empty slice.         *)
StartError(i, ld) ==
    IF ld.raised THEN "index"
    ELSE IF i.n <= FiltPadLen THEN "filtfilt"
    ELSE IF PlanRaises(i.cfg, i.n, i.dips) THEN "min"
    ELSE ""

(* Lines 497-534: the index is loaded, the signal is filtered, the cuts    *)
(* are planned and the signal is padded.                                   *)
Start ==
    /\ pc = "idle"
    /\ \E i \in Inputs :
          LET ld == LoadIndex(i)
          IN  /\ inp' = i
              /\ index' = ld.index
              /\ idxLog' = ld.logged
              /\ idxReads' = ld.reads
              /\ err' = StartError(i, ld)
              /\ IF StartError(i, ld) # ""
                 THEN pc' = "error" /\ opt_ts' = <<>>
                 ELSE pc' = "planned" /\ opt_ts' = Plan(i.cfg, i.n, i.dips)
    /\ UNCHANGED <<req, s, t, k, calls, audio_opt, pitchLen, cache, path2wav, ran,
                   post, f0, sig>>

(* if if_f0 == 1, line 548.                                                *)
WantsPitchTruthy(i) == i.if_f0 # 0

WantsPitch(i) == i.if_f0 = 1

(* Lines 547-564: get_f0 when if_f0 == 1, then pitch[:p_len].              *)
PitchStep ==
    /\ pc = "planned"
    /\ IF WantsPitch(inp)
       THEN \E r \in {get_f0(F0Args(inp), cache, path2wav)} :
                /\ cache' = r.cache
                /\ path2wav' = r.path2wav
                /\ ran' = r.ran
                /\ IF r.raised
                   THEN pc' = "error" /\ pitchLen' = NoPitch /\ err' = "get_f0"
                   ELSE /\ pc' = "chunks"
                        /\ pitchLen' = Min(PipeP_len(inp), Len(r.f0))
                        /\ err' = err
       ELSE /\ pc' = "chunks"
            /\ UNCHANGED <<cache, path2wav, ran, pitchLen, err>>
    /\ UNCHANGED <<req, inp, index, idxLog, idxReads, opt_ts, s, t, k, calls,
                   audio_opt, post, f0, sig>>

(* VC.vc, lines 403-465, has no try statement: the exception that leaves   *)
(* the j-th call of the invocation, "" if none. The extractor (line 405)   *)
(* comes before the upsampling (line 433) and the protection blend (line   *)
(* 451), the generator (lines 455-464) after them.                         *)
VcError(i, j, r) ==
    IF i.failAt = j /\ i.failStage = "extract_features"
    THEN "extract_features"
    ELSE IF r.interpRaised THEN "interpolate"
    ELSE IF r.raised THEN "protect"
    ELSE IF i.failAt = j THEN i.failStage
    ELSE ""

VcRaisesNever(i, j, r) == FALSE

VcRaises(i, j, r) == VcError(i, j, r) # ""

(* The slice of pitch and pitchf handed to VC.vc.                          *)
PitchSlice(sl) == IF pitchLen = NoPitch THEN NoPitch ELSE sl.hi - sl.lo

(* One iteration of the loop over opt_ts, lines 567-603.                   *)
Chunk ==
    /\ pc = "chunks"
    /\ k < Len(opt_ts)
    /\ LET tt  == Snap(opt_ts[k + 1])
           seg == PySlice(PadLen(inp), s, tt + t_pad2(inp.cfg) + window)
           pit == PySlice(Max(pitchLen, 0), s \div window,
                          (tt + t_pad2(inp.cfg)) \div window)
           r   == vc(seg.hi - seg.lo, PitchSlice(pit), index, inp)
       IN  IF VcRaises(inp, k + 1, r)
           THEN /\ pc' = "error"
                /\ err' = VcError(inp, k + 1, r)
                /\ t' = tt
                /\ UNCHANGED <<calls, audio_opt, s, k>>
           ELSE /\ calls' = Append(calls, [s |-> s, t |-> tt, seg |-> seg,
                                           pit |-> pit, r |-> r])
                /\ audio_opt' =
                      Append(audio_opt, Trimmed(r.out, inp.cfg, inp.tgt_sr))
                /\ s' = tt
                /\ t' = tt
                /\ k' = k + 1
                /\ UNCHANGED <<pc, err>>
    /\ UNCHANGED <<req, inp, index, idxLog, idxReads, opt_ts, pitchLen, cache,
                   path2wav, ran, post, f0, sig>>

(* The last segment, lines 604-637: audio_pad[t:] with pitch[:, t//window:]*)
(* (the whole of both while t is None).                                    *)
Final ==
    /\ pc = "chunks"
    /\ k = Len(opt_ts)
    /\ LET seg == PySliceFrom(PadLen(inp), t)
           pit == PySliceFrom(Max(pitchLen, 0),
                              IF t = NoneT THEN NoneT ELSE t \div window)
           r   == vc(seg.hi - seg.lo, PitchSlice(pit), index, inp)
       IN  IF VcRaises(inp, k + 1, r)
           THEN /\ pc' = "error"
                /\ err' = VcError(inp, k + 1, r)
                /\ UNCHANGED <<calls, audio_opt>>
           ELSE /\ calls' = Append(calls, [s |-> t, t |-> NoneT, seg |-> seg,
                                           pit |-> pit, r |-> r])
                /\ audio_opt' =
                      Append(audio_opt, Trimmed(r.out, inp.cfg, inp.tgt_sr))
                /\ pc' = "concat"
                /\ err' = err
    /\ UNCHANGED <<req, inp, index, idxLog, idxReads, opt_ts, s, t, k, pitchLen,
                   cache, path2wav, ran, post, f0, sig>>

(* The exception raised by lines 638-649 on a concatenation of total       *)
(* samples, "" if none: change_rms (line 640) raises RuntimeError in       *)
(* F.interpolate(size=0) on an empty array, np.abs(audio_opt).max() (line  *)
(* 645) raises ValueError on one.                                          *)
PostError(total, rate) ==
    IF total > 0 THEN ""
    ELSE IF RmsApplied(rate) THEN "change_rms"
    ELSE "max"

(* Lines 638-653 on lengths. post.rms: change_rms was called;              *)
(* post.resampled: librosa.resample was called.                            *)
Post ==
    /\ pc = "concat"
    /\ LET total == SumSeq(audio_opt)
           e     == PostError(total, inp.rms_mix_rate)
           rs    == Resamples(inp.tgt_sr, inp.resample_sr)
                    /\ e # "change_rms"
       IN  /\ post' = [rms |-> RmsApplied(inp.rms_mix_rate),
                       resampled |-> rs,
                       len |-> IF rs
                               THEN ResampleLen(total, inp.tgt_sr,
                                                inp.resample_sr)
                               ELSE total]
           /\ pc' = IF e # "" THEN "error" ELSE "done"
           /\ err' = IF e # "" THEN e ELSE err
    /\ UNCHANGED <<req, inp, index, idxLog, idxReads, opt_ts, s, t, k, calls,
                   audio_opt, pitchLen, cache, path2wav, ran, f0, sig>>

Next == Start \/ PitchStep \/ Chunk \/ Final \/ Post

Spec == Init /\ [][Next]_vars

-----------------------------------------------------------------------------
(* Properties of the chunk plan.                                           *)

(* The plan of the invocation has been computed.                           *)
Planned == pc \in {"planned", "chunks", "concat", "done"}

(* The last segment has been converted.                                    *)
AllConverted == Len(calls) = Len(opt_ts) + 1

(* The call converts the whole padded signal with the whole contour.       *)
WholeSignal(c) ==
    /\ c.s = NoneT
    /\ c.seg = [lo |-> 0, hi |-> PadLen(inp)]
    /\ IF inp.if_f0 = 1
       THEN c.pit = [lo |-> 0, hi |-> pitchLen] /\ c.r.pitchIn = pitchLen
       ELSE c.r.pitchIn = NoPitch

OneWholeChunk ==
    /\ Planned => opt_ts = <<>>
    /\ AllConverted => Len(calls) = 1 /\ WholeSignal(calls[1])

(* C1 as stated: a waveform shorter than t_max gets no cut points and one  *)
(* conversion of the whole padded signal.                                  *)
C1_BelowThreshold ==
    (pc # "idle" /\ inp.n < t_max(inp.cfg)) => OneWholeChunk

(* C1 amended: a waveform whose length padded by one window is at most     *)
(* t_max gets no cut points, and once the last segment is converted the    *)
(* conversion unit was invoked exactly once, on the whole padded signal    *)
(* with the full pitch contour.                                            *)
C1_PaddedBelowThreshold ==
    (pc # "idle" /\ inp.n + window <= t_max(inp.cfg)) => OneWholeChunk

C1_Witness ==
    /\ AllConverted
    /\ inp.n + window <= t_max(inp.cfg)
    /\ inp.n > t_center(inp.cfg)
    /\ inp.if_f0 = 1
    /\ Len(calls) = 1
    /\ WholeSignal(calls[1])

(* The offsets of the non-final calls made so far: call j runs from        *)
(* calls[j].s to calls[j].t.                                               *)
CutCalls == {j \in DOMAIN calls : calls[j].t # NoneT}

GapsPositiveFrames ==
    \A j \in CutCalls :
        /\ calls[j].t - calls[j].s > 0
        /\ (calls[j].t - calls[j].s) % window = 0

(* C2 as stated: for every configuration the used cut offsets are strictly *)
(* increasing from 0 and every gap is a positive multiple of window.       *)
C2_IncreasingEveryConfig == GapsPositiveFrames

(* C2 amended: when x_center >= 2 * x_query (the query neighbourhoods of   *)
(* consecutive targets do not overlap), the used cut offsets are strictly  *)
(* increasing from 0 and every gap is a positive multiple of window.       *)
C2_IncreasingDisjointQueries ==
    inp.cfg.x_center >= 2 * inp.cfg.x_query => GapsPositiveFrames

C2_Witness ==
    /\ AllConverted
    /\ inp.cfg.x_center >= 2 * inp.cfg.x_query
    /\ Len(opt_ts) >= 2
    /\ \E j \in DOMAIN opt_ts : opt_ts[j] % window # 0
    /\ GapsPositiveFrames

(* C3 as stated: every segment between consecutive cut offsets is at most  *)
(* t_max samples long.                                                     *)
C3_SegmentsWithinTMax ==
    \A j \in CutCalls : calls[j].t - calls[j].s <= t_max(inp.cfg)

(* C3 amended: every segment between consecutive cut offsets is at most    *)
(* t_center + 2 * t_query - window samples long, the first (from offset 0) *)
(* at most t_center + t_query - window; t_max bounds none of them.         *)
C3_SegmentsWithinQueryReach ==
    \A j \in CutCalls :
        calls[j].t - calls[j].s
            <= t_center(inp.cfg) - window
               + (IF j = 1 THEN 1 ELSE 2) * t_query(inp.cfg)

C3_Witness ==
    /\ AllConverted
    /\ inp.cfg.x_center >= 2 * inp.cfg.x_query
    /\ \E j \in CutCalls : calls[j].t - calls[j].s > t_max(inp.cfg)
    /\ C3_SegmentsWithinQueryReach

(* The trimmed output of converting the whole padded signal in one call.   *)
SingleChunkOut(i) ==
    Trimmed(vc(PadLen(i), NoPitch, "None", i).out, i.cfg, i.tgt_sr)

(* C4: for a waveform cut into chunks, the trimmed pieces together have as *)
(* many samples as the conversion of the whole waveform as one chunk. It   *)
(* is stated where the plan is well formed (x_pad >= 1 and                 *)
(* x_center >= 2 * x_query), so that a difference is one of the chunk      *)
(* boundaries alone.                                                       *)
C4_ChunkedLengthEqualsSingle ==
    (/\ AllConverted
     /\ opt_ts # <<>>
     /\ inp.cfg.x_pad >= 1
     /\ inp.cfg.x_center >= 2 * inp.cfg.x_query) =>
        SumSeq(audio_opt) = SingleChunkOut(inp)

-----------------------------------------------------------------------------
(* Properties of the reference index.                                      *)

(* No call so far blended its features with retrieved vectors: what the    *)
(* extractor returned went on unchanged.                                   *)
RetrievalSkipped ==
    \A j \in DOMAIN calls :
        ~calls[j].r.blended /\ calls[j].r.feats = calls[j].r.extracted

(* C7: with index_rate = 0, no index path or no index file, retrieval is   *)
(* skipped for every chunk and the extracted features go on unchanged;     *)
(* with index_rate = 0 the index file is never read.                       *)
C7_NoIndexNoRetrieval ==
    (pc # "idle"
     /\ (inp.index_rate = 0 \/ inp.file_index = "" \/ ~inp.fileExists))
    => /\ index = "None"
       /\ RetrievalSkipped
       /\ (inp.index_rate = 0 => idxReads = 0)

C7_Witness ==
    /\ AllConverted
    /\ Len(calls) >= 2
    /\ inp.index_rate = 0
    /\ inp.file_index # ""
    /\ inp.fileExists
    /\ idxReads = 0
    /\ RetrievalSkipped

(* The index file is read and the read fails.                              *)
IndexFails == IndexWanted(inp) /\ inp.fileCorrupt

(* C8: a failing read of the index never aborts the invocation: it is      *)
(* logged, the pipeline goes on with index = None, and every chunk is      *)
(* converted as in a run without index.                                    *)
C8_IndexFailureDegrades ==
    (pc # "idle" /\ IndexFails)
    => /\ err # "index"
       /\ pc # "error"
       /\ index = "None"
       /\ idxLog
       /\ \A j \in DOMAIN calls :
             calls[j].r = vc(calls[j].r.len, calls[j].r.pitchIn, "None",
                             [inp EXCEPT !.file_index = ""])

C8_Witness ==
    /\ pc = "done"
    /\ IndexFails
    /\ inp.index_rate = 100
    /\ idxReads = 1
    /\ idxLog
    /\ Len(calls) >= 2
    /\ RetrievalSkipped

-----------------------------------------------------------------------------
(* Properties of the method identifier.                                    *)

(* The identifier names a method get_f0 does not know.                     *)
UnknownMethod(m) ==
    IF m.hybrid
    THEN \E j \in DOMAIN m.names : m.names[j] \notin HybridKnown
    ELSE m.names[1] \notin Estimators

(* C10: an invocation with an unrecognized method identifier runs no       *)
(* pitch estimator, leaves the pitch cache and input_audio_path2wav        *)
(* alone and calls neither the extractor nor the generator.                *)
C10_UnknownMethodRejectedFirst ==
    (pc # "idle" /\ UnknownMethod(inp.f0_method))
    => /\ ran = <<>>
       /\ cache = EmptyDict
       /\ path2wav = EmptyDict
       /\ calls = <<>>

-----------------------------------------------------------------------------
(* SpecF0: VC.get_f0 called on short contours, frame by frame.             *)

MaxPLen == 2

Tones == {0, 100, 220}

(* The waveforms of at most n frames, as the estimators hear them.         *)
Waveforms(lens) ==
    UNION {{[len |-> n, seed |-> sd] : sd \in [1..n -> Tones]} : n \in lens}

F0Calls ==
    {[path |-> "song.wav", x |-> x, p_len |-> p, f0_up_key |-> key,
      filter_radius |-> fr, inp_f0 |-> ov, x_pad |-> xp] :
        p \in 1..MaxPLen,
        x \in Waveforms(1..(MaxPLen + 1)),
        key \in {0, 12}, fr \in {2, 3},
        ov \in {NoOverride} \cup OverrideFile(10, 300), xp \in {0, 1}}

InitF0 ==
    /\ PipeInit("off")
    /\ req = [pc |-> "off"]
    /\ sig = [pc |-> "off"]
    /\ f0 \in {[pc |-> "ready", a |-> a] :
                  a \in {c \in F0Calls :
                            c.x.len \in (c.p_len - 1)..(c.p_len + 1)}}

WithMethod(a, m) ==
    [path |-> a.path, x |-> a.x, p_len |-> a.p_len, f0_up_key |-> a.f0_up_key,
     filter_radius |-> a.filter_radius, inp_f0 |-> a.inp_f0,
     x_pad |-> a.x_pad, f0_method |-> m]

(* The first call of get_f0 in the process: the cache and                  *)
(* input_audio_path2wav are still empty.                                   *)
F0Call ==
    /\ f0.pc = "ready"
    /\ \E m \in MethodNames :
          \E r \in {get_f0(WithMethod(f0.a, m), cache, path2wav)} :
              /\ f0' = [pc |-> "called", a |-> f0.a, method |-> m,
                        raised |-> r.raised, res |-> r.f0]
              /\ cache' = r.cache
              /\ path2wav' = r.path2wav
              /\ ran' = r.ran
    /\ UNCHANGED <<req, pc, inp, index, idxLog, idxReads, opt_ts, s, t, k, calls,
                   audio_opt, pitchLen, post, err, sig>>

HarvestFamily == {Single("harvest"), Hybrid(<<"harvest">>)}

(* A second call of get_f0 in the same process, for the same input path    *)
(* and waveform, with the harvest method and any f0_up_key and             *)
(* filter_radius, with the f0 file of the first call or none: the cache    *)
(* and input_audio_path2wav are as the first call left them.               *)
F0Again ==
    /\ f0.pc = "called"
    /\ \E m \in HarvestFamily, key \in {0, 12}, fr \in {2, 3},
          ov \in {NoOverride, f0.a.inp_f0} :
          \E a2 \in {[WithMethod(f0.a, m) EXCEPT !.f0_up_key = key,
                                                 !.filter_radius = fr,
                                                 !.inp_f0 = ov]} :
              \E r \in {get_f0(a2, cache, path2wav)} :
                  /\ f0' = [pc |-> "again", a |-> f0.a, method |-> f0.method,
                            raised |-> f0.raised, res |-> f0.res,
                            a2 |-> a2, raised2 |-> r.raised, res2 |-> r.f0]
                  /\ cache' = r.cache
                  /\ path2wav' = r.path2wav
                  /\ ran' = ran \o r.ran
    /\ UNCHANGED <<req, pc, inp, index, idxLog, idxReads, opt_ts, s, t, k, calls,
                   audio_opt, pitchLen, post, err, sig>>

(* Another recording under the same name: every tone of the waveform       *)
(* replaced by the next one of Tones.                                      *)
OtherTone(v) == IF v = 0 THEN 100 ELSE IF v = 100 THEN 220 ELSE 0

OtherWav(x) ==
    [len |-> x.len, seed |-> [j \in DOMAIN x.seed |-> OtherTone(x.seed[j])]]

(* A second call of get_f0 in the same process, with the harvest method    *)
(* and the same input path, after the waveform behind the path changed.    *)
F0Changed ==
    /\ f0.pc = "called"
    /\ \E m \in HarvestFamily, fr \in {2, 3} :
          \E a2 \in {[WithMethod(f0.a, m) EXCEPT !.x = OtherWav(f0.a.x),
                                                 !.filter_radius = fr]} :
              \E r \in {get_f0(a2, cache, path2wav)} :
                  /\ f0' = [pc |-> "changed", a |-> f0.a, method |-> f0.method,
                            raised |-> f0.raised, res |-> f0.res,
                            a2 |-> a2, raised2 |-> r.raised, res2 |-> r.f0]
                  /\ cache' = r.cache
                  /\ path2wav' = r.path2wav
                  /\ ran' = ran \o r.ran
    /\ UNCHANGED <<req, pc, inp, index, idxLog, idxReads, opt_ts, s, t, k, calls,
                   audio_opt, pitchLen, post, err, sig>>

NextF0 == F0Call \/ F0Again \/ F0Changed

SpecF0 == InitF0 /\ [][NextF0]_vars

(* C9: get_f0 with "hybrid[m]" returns, frame for frame, the contour that  *)
(* get_f0 with m returns for the same arguments.                           *)
C9_HybridOneIsDirect ==
    (/\ f0.pc = "called"
     /\ f0.method.hybrid
     /\ Len(f0.method.names) = 1
     /\ f0.method.names[1] \in HybridKnown)
    => /\ ~f0.raised
       /\ f0.res = get_f0(WithMethod(f0.a, Single(f0.method.names[1])),
                          EmptyDict, EmptyDict).f0

-----------------------------------------------------------------------------
(* SpecPost: the tail of VC.pipeline after np.concatenate, lines 638-653,  *)
(* sample by sample, for invocations that do not resample. A sample is an  *)
(* integer number of ticks of 1/200 of full scale; an envelope value is an *)
(* integer number of floors of 1e-6.                                       *)

MaxSigLen == 2

SampleTicks == {-300, -198, 0, 100, 198, 200, 300}

EnvLevels == {0, 1, 2}

Abs(v) == IF v >= 0 THEN v ELSE 0 - v

(* Division rounding toward zero, as astype(np.int16) rounds.              *)
TruncDiv(n, d) == IF n >= 0 THEN n \div d ELSE 0 - ((0 - n) \div d)

(* torch.pow(b, e) for e in {0, 1}; pow(0, 0) is 1.                        *)
PowInt(b, e) == IF e = 0 THEN 1 ELSE b

(* change_rms, lines 41-60, given the two envelopes interpolated to the    *)
(* samples of data2 (e1 of the source, e2 of data2), rate in percent,      *)
(* 0 or 100: data2 *= rms1^(1 - rate) * max(rms2, 1e-6)^(rate - 1).        *)
change_rms_swapped(data2, e1, e2, rate) ==
    [j \in 1..Len(data2) |->
        (data2[j] * PowInt(e1, rate \div 100))
            \div PowInt(Max(e2, 1), rate \div 100)]

change_rms(data2, e1, e2, rate) ==
    [j \in 1..Len(data2) |->
        (data2[j] * PowInt(e1, (100 - rate) \div 100))
            \div PowInt(Max(e2, 1), (100 - rate) \div 100)]

(* F.interpolate(rms1.unsqueeze(0), size=data2.shape[0], ...), lines       *)
(* 48-50, raises RuntimeError for an output size of 0: change_rms never    *)
(* returns on an empty data2, whatever the rate.                           *)
ChangeRmsRaises(data2) == data2 = <<>>

(* np.abs(audio_opt).max() in ticks.                                       *)
Peak(x) == CHOOSE p \in {Abs(x[j]) : j \in 1..Len(x)} :
               \A j \in 1..Len(x) : Abs(x[j]) <= p

(* Lines 645-649 on one sample a of a signal of peak p: audio_max is       *)
(* p / 0.99, max_int16 is 32768, divided by audio_max when audio_max > 1.  *)
QuantizeNoHeadroom(a, p) ==
    ToInt16(IF p > 200
            THEN TruncDiv(a * 32768, p)
            ELSE TruncDiv(a * 32768, 200))

Quantize(a, p) ==
    ToInt16(IF p * 100 > 99 * 200
            THEN TruncDiv(a * 32768 * 99, 100 * p)
            ELSE TruncDiv(a * 32768, 200))

Signals == UNION {[1..n -> SampleTicks] : n \in 0..MaxSigLen}

InitPost ==
    /\ PipeInit("off")
    /\ req = [pc |-> "off"]
    /\ f0 = [pc |-> "off"]
    /\ sig \in {[pc |-> "concat", x0 |-> x, x |-> x, e1 |-> e1, e2 |-> e2,
                 rate |-> r, rmsCalled |-> FALSE, err |-> "",
                 data2 |-> x, direct |-> <<>>, directDone |-> FALSE,
                 directRaised |-> FALSE, out |-> <<>>] :
                   x \in Signals, e1 \in EnvLevels, e2 \in EnvLevels,
                   r \in {0, 100}}

(* Lines 639-640: change_rms is called unless rms_mix_rate is 1; its       *)
(* exception ends the invocation.                                          *)
PostRms ==
    /\ sig.pc = "concat"
    /\ sig' = IF ~RmsApplied(sig.rate)
              THEN [sig EXCEPT !.pc = "rms"]
              ELSE IF ChangeRmsRaises(sig.x)
              THEN [sig EXCEPT !.pc = "error", !.rmsCalled = TRUE,
                               !.err = "change_rms"]
              ELSE [sig EXCEPT
                       !.pc = "rms",
                       !.rmsCalled = TRUE,
                       !.x = change_rms(sig.x, sig.e1, sig.e2, sig.rate)]
    /\ UNCHANGED <<pipeVars, f0, req>>

(* Lines 645-649: peak normalisation and quantisation; .max() of an empty  *)
(* array raises ValueError.                                                *)
PostQuantize ==
    /\ sig.pc = "rms"
    /\ sig' = IF sig.x = <<>>
              THEN [sig EXCEPT !.pc = "error", !.err = "max"]
              ELSE [sig EXCEPT
                       !.pc = "done",
                       !.out = [j \in 1..Len(sig.x) |->
                                   Quantize(sig.x[j], Peak(sig.x))]]
    /\ UNCHANGED <<pipeVars, f0, req>>

(* change_rms called on the converted signal by a caller of its own, with  *)
(* any rate. data2 *= ... (line 56) works in place: data2 is the caller's  *)
(* array after the call, direct the value returned.                        *)
ChangeRmsCall ==
    /\ sig.pc = "concat"
    /\ ~sig.directDone
    /\ sig' = IF ChangeRmsRaises(sig.x0)
              THEN [sig EXCEPT !.directDone = TRUE, !.directRaised = TRUE]
              ELSE [sig EXCEPT
                       !.directDone = TRUE,
                       !.direct = change_rms(sig.x0, sig.e1, sig.e2,
                                             sig.rate),
                       !.data2 = change_rms(sig.x0, sig.e1, sig.e2,
                                            sig.rate)]
    /\ UNCHANGED <<pipeVars, f0, req>>

NextPost == PostRms \/ PostQuantize \/ ChangeRmsCall

SpecPost == InitPost /\ [][NextPost]_vars

(* 0.99 * 32768 rounded toward zero.                                       *)
Int16Headroom == (99 * 32768) \div 100

(* C5: the buffer returned for a non-empty signal stays within 0.99 of     *)
(* 16-bit full scale and no sample wraps around (each keeps its sign): a   *)
(* peak above 0.99 is brought to 0.99 of full scale, a signal of peak at   *)
(* most 0.99 is multiplied by 32768.                                       *)
C5_PeakWithinInt16 ==
    (sig.pc = "done") =>
        /\ Len(sig.out) = Len(sig.x)
        /\ \A j \in 1..Len(sig.x) :
              /\ Abs(sig.out[j]) <= Int16Headroom
              /\ (sig.x[j] >= 0) = (sig.out[j] >= 0)
              /\ \A q \in 1..Len(sig.x) :
                    sig.x[q] <= sig.x[j] => sig.out[q] <= sig.out[j]
        /\ (Peak(sig.x) * 100 > 99 * 200) =>
              \E j \in 1..Len(sig.x) : Abs(sig.out[j]) = Int16Headroom
        /\ (Peak(sig.x) * 100 <= 99 * 200) =>
              \A j \in 1..Len(sig.x) :
                  sig.out[j] = TruncDiv(sig.x[j] * 32768, 200)

C5_Witness ==
    /\ sig.pc = "done"
    /\ Len(sig.x) = 2
    /\ Peak(sig.x) = 300
    /\ \E j \in 1..2 : sig.out[j] = 0 - Int16Headroom
    /\ \E j \in 1..2 : sig.out[j] > 0

(* C6: with rms_mix_rate = 1 the pipeline does not call change_rms and the *)
(* converted signal is left as it was, and change_rms called with rate 1   *)
(* returns every sample unchanged, whatever the two envelopes are (the     *)
(* array it was given holds the same samples). A signal without samples    *)
(* has no envelope to interpolate: on it the call raises at every rate.    *)
C6_RateOneIsIdentity ==
    (sig.pc # "off" /\ sig.rate = 100) =>
        /\ (sig.pc # "concat" => ~sig.rmsCalled /\ sig.x = sig.x0)
        /\ (sig.directDone =>
              IF sig.x0 = <<>>
              THEN sig.directRaised
              ELSE /\ ~sig.directRaised
                   /\ sig.direct = sig.x0
                   /\ sig.data2 = sig.x0)

C6_Witness ==
    /\ sig.pc = "done"
    /\ sig.rate = 100
    /\ sig.directDone
    /\ sig.e1 = 0
    /\ sig.e2 = 2
    /\ Len(sig.x0) = 2
    /\ sig.x0[1] # 0
    /\ sig.direct = sig.x0
    /\ ~sig.rmsCalled

-----------------------------------------------------------------------------
(* SpecCoarse: the coarse-pitch mapping at the end of get_f0, lines        *)
(* 361-370, on contours of one or two frames taken from a grid of          *)
(* frequencies.                                                            *)

f0_min == 50

f0_max == 1100

HzGrid == {0, 1, 25, 49, 50, 51, 100, 220, 440, 880, 1099, 1100, 1101, 1500,
           2200, 4400}

(* 1127 * np.log(1 + f / 700) in thousandths of a mel, rounded, for the    *)
(* frequencies of HzGrid.                                                  *)
MelMilli(f) ==
    CASE f = 0    -> 0
      [] f = 1    -> 1609
      [] f = 25   -> 39548
      [] f = 49   -> 76251
      [] f = 50   -> 77755
      [] f = 51   -> 79257
      [] f = 100  -> 150490
      [] f = 220  -> 308002
      [] f = 440  -> 549642
      [] f = 880  -> 917490
      [] f = 1099 -> 1063782
      [] f = 1100 -> 1064408
      [] f = 1101 -> 1065034
      [] f = 1500 -> 1290564
      [] f = 2200 -> 1601902
      [] f = 4400 -> 2238127

f0_mel_min == MelMilli(f0_min)

f0_mel_max == MelMilli(f0_max)

(* Lines 362-365 as the fraction num / (f0_mel_max - f0_mel_min): a mel    *)
(* value above 0 is rescaled, 0 stays 0.                                   *)
MelRescaled(f) ==
    IF MelMilli(f) > 0
    THEN (MelMilli(f) - f0_mel_min) * 254 + (f0_mel_max - f0_mel_min)
    ELSE 0

(* Lines 366-368: values <= 1 become 1, values > 255 become 255, then      *)
(* np.rint(...).astype(np.int32).                                          *)
CoarseNoCeiling(f) ==
    IF MelRescaled(f) <= f0_mel_max - f0_mel_min THEN 1
    ELSE RintDiv(MelRescaled(f), f0_mel_max - f0_mel_min)

Coarse(f) ==
    IF MelRescaled(f) <= f0_mel_max - f0_mel_min THEN 1
    ELSE IF MelRescaled(f) > 255 * (f0_mel_max - f0_mel_min) THEN 255
    ELSE RintDiv(MelRescaled(f), f0_mel_max - f0_mel_min)

HzContours == [1..1 -> HzGrid] \cup [1..2 -> HzGrid]

InitCoarse ==
    /\ PipeInit("off")
    /\ req = [pc |-> "off"]
    /\ sig = [pc |-> "off"]
    /\ f0 \in {[pc |-> "hz", hz |-> c] : c \in HzContours}

(* Lines 360-370: f0bak = f0.copy(), f0_coarse from the mel scale.         *)
CoarseStep ==
    /\ f0.pc = "hz"
    /\ f0' = [pc |-> "coarse", hz |-> f0.hz, f0bak |-> f0.hz,
              f0_coarse |-> [j \in DOMAIN f0.hz |-> Coarse(f0.hz[j])]]
    /\ UNCHANGED <<pipeVars, sig, req>>

NextCoarse == CoarseStep

SpecCoarse == InitCoarse /\ [][NextCoarse]_vars

(* C11: the coarse mapping sends every frequency into 1..255, 0 Hz to      *)
(* bucket 1 and f0_max to bucket 255, and a frame of no lower frequency    *)
(* than another gets no lower bucket.                                      *)
C11_CoarseMonotoneBounded ==
    (f0.pc = "coarse") =>
        \A j \in DOMAIN f0.hz :
            /\ f0.f0_coarse[j] \in 1..255
            /\ (f0.hz[j] = 0 => f0.f0_coarse[j] = 1)
            /\ (f0.hz[j] = f0_max => f0.f0_coarse[j] = 255)
            /\ \A q \in DOMAIN f0.hz :
                  f0.hz[q] <= f0.hz[j] => f0.f0_coarse[q] <= f0.f0_coarse[j]

C11_Witness ==
    /\ f0.pc = "coarse"
    /\ f0.hz = <<440, 2200>>
    /\ f0.f0_coarse[1] > 1
    /\ f0.f0_coarse[1] < 255
    /\ f0.f0_coarse[2] = 255

-----------------------------------------------------------------------------
(* Properties of the contour held by VC.pipeline.                          *)

(* C12: for every supported method and every raw contour length, the       *)
(* pitch contours that VC.pipeline holds after get_f0 and pitch[:p_len]    *)
(* have exactly p_len frames.                                              *)
C12_ContourHasPLenFrames ==
    (/\ pc \in {"chunks", "concat", "done"}
     /\ inp.if_f0 = 1
     /\ ~UnknownMethod(inp.f0_method))
    => pitchLen = PipeP_len(inp)

-----------------------------------------------------------------------------
(* Properties of the harvest cache.                                        *)

(* Every get_f0 call so far used the harvest method, alone or as the only  *)
(* hybrid component.                                                       *)
OnlyHarvestCalls ==
    /\ f0.pc \in {"called", "again"}
    /\ f0.method \in HarvestFamily

(* C13: in a sequence of harvest calls for one path and waveform, every    *)
(* call returns what a fresh, uncached computation returns for its         *)
(* arguments, and the cached contour stays the raw harvest contour.        *)
C13_HarvestCacheTransparent ==
    OnlyHarvestCalls =>
        /\ f0.a.path \in DOMAIN cache
              => cache[f0.a.path] = EstOut("harvest", f0.a.x)
        /\ f0.pc = "again"
              => f0.res2 = get_f0(f0.a2, EmptyDict, EmptyDict).f0

-----------------------------------------------------------------------------
(* SpecThreads: threads of one process inside the harvest branch of        *)
(* get_f0, lines 296-299 and 346. functools.lru_cache looks the key up,    *)
(* and on a miss calls cache_harvest_f0 without holding any lock; when the *)
(* call returns it stores the result unless the key was stored meanwhile,  *)
(* and returns the result either way. input_audio_path2wav is a plain      *)
(* dict. The cache holds 128 keys before it evicts one; the threads here   *)
(* use at most two.                                                        *)

MaxThreads == 2

Threads == 1..MaxThreads

ThreadPaths == {"song.wav", "other.wav"}

ThreadWavs == {[len |-> 1, seed |-> <<100>>], [len |-> 1, seed |-> <<220>>]}

InitThreads ==
    /\ PipeInit("off")
    /\ req = [pc |-> "off"]
    /\ sig = [pc |-> "off"]
    /\ f0 \in {[pc |-> "threads", th |-> th, computed |-> <<>>] :
                  th \in [Threads -> {[pc |-> "start", path |-> p, x |-> x,
                                       f0_up_key |-> key,
                                       filter_radius |-> fr,
                                       got |-> <<>>, cached |-> FALSE] :
                                         p \in ThreadPaths, x \in ThreadWavs,
                                         key \in {0, 12}, fr \in {0, 3}}]}

ThreadUnchanged ==
    UNCHANGED <<req, pc, inp, index, idxLog, idxReads, opt_ts, s, t, k, calls,
                audio_opt, pitchLen, post, err, sig>>

(* Line 296: input_audio_path2wav[input_audio_path] = x.astype(np.double)  *)
ThreadSetWav(i) ==
    /\ f0.pc = "threads"
    /\ f0.th[i].pc = "start"
    /\ path2wav' = Put(path2wav, f0.th[i].path, f0.th[i].x)
    /\ f0' = [f0 EXCEPT !.th[i].pc = "lookup"]
    /\ UNCHANGED <<cache, ran>>
    /\ ThreadUnchanged

(* Line 297, the wrapper of lru_cache: a hit returns the stored contour, a *)
(* miss goes on to call the function.                                      *)
ThreadLookup(i) ==
    /\ f0.pc = "threads"
    /\ f0.th[i].pc = "lookup"
    /\ f0' = IF f0.th[i].path \in DOMAIN cache
             THEN [f0 EXCEPT !.th[i].pc = "got",
                             !.th[i].got = cache[f0.th[i].path],
                             !.th[i].cached = TRUE]
             ELSE [f0 EXCEPT !.th[i].pc = "miss"]
    /\ UNCHANGED <<cache, path2wav, ran>>
    /\ ThreadUnchanged

(* Lines 29-38: harvest runs on input_audio_path2wav[input_audio_path] as  *)
(* it is now.                                                              *)
ThreadCompute(i) ==
    /\ f0.pc = "threads"
    /\ f0.th[i].pc = "miss"
    /\ f0' = [f0 EXCEPT
                 !.th[i].pc = "computed",
                 !.th[i].got = EstOut("harvest", path2wav[f0.th[i].path]),
                 !.computed = Append(f0.computed, f0.th[i].path)]
    /\ ran' = Append(ran, "harvest")
    /\ UNCHANGED <<cache, path2wav>>
    /\ ThreadUnchanged

(* The wrapper after the call: a key stored by another thread during the   *)
(* call keeps its value, otherwise the result is stored; the result is     *)
(* returned. cached: the array the thread holds is the one in the cache.   *)
ThreadStore(i) ==
    /\ f0.pc = "threads"
    /\ f0.th[i].pc = "computed"
    /\ cache' = IF f0.th[i].path \in DOMAIN cache
                THEN cache
                ELSE Put(cache, f0.th[i].path, f0.th[i].got)
    /\ f0' = [f0 EXCEPT !.th[i].pc = "got",
                        !.th[i].cached = f0.th[i].path \notin DOMAIN cache]
    /\ UNCHANGED <<path2wav, ran>>
    /\ ThreadUnchanged

(* Lines 298-299 and 346: signal.medfilt returns a new array when          *)
(* filter_radius > 2; f0 *= pow(2, f0_up_key / 12) works in place, on the  *)
(* cached array when f0 still is that array (read as it is now).           *)
ThreadScale(i) ==
    /\ f0.pc = "threads"
    /\ f0.th[i].pc = "got"
    /\ LET th   == f0.th[i]
           held == IF th.cached THEN cache[th.path] ELSE th.got
       IN  IF th.filter_radius > 2
           THEN /\ f0' = [f0 EXCEPT
                             !.th[i].pc = "done",
                             !.th[i].cached = FALSE,
                             !.th[i].got = Scale(Medfilt3(held),
                                                 th.f0_up_key)]
                /\ cache' = cache
           ELSE /\ f0' = [f0 EXCEPT
                             !.th[i].pc = "done",
                             !.th[i].got = Scale(held, th.f0_up_key)]
                /\ cache' = IF th.cached
                            THEN Put(cache, th.path,
                                     Scale(held, th.f0_up_key))
                            ELSE cache
    /\ UNCHANGED <<path2wav, ran>>
    /\ ThreadUnchanged

NextThreads ==
    \E i \in Threads :
        \/ ThreadSetWav(i)
        \/ ThreadLookup(i)
        \/ ThreadCompute(i)
        \/ ThreadStore(i)
        \/ ThreadScale(i)

SpecThreads == InitThreads /\ [][NextThreads]_vars

(* The number of harvest computations made for the path.                   *)
HarvestRuns(p) ==
    Cardinality({j \in DOMAIN f0.computed : f0.computed[j] = p})

(* C14: with several threads calling get_f0 with harvest for one cache     *)
(* key, harvest runs at most once for that key.                            *)
C14_HarvestOncePerKey ==
    (f0.pc = "threads") => \A p \in ThreadPaths : HarvestRuns(p) <= 1

-----------------------------------------------------------------------------
(* Properties of failures inside VC.vc.                                    *)

(* The number of VC.vc calls the plan of the invocation asks for.          *)
PlannedCalls == Len(opt_ts) + 1

(* C15: when the extractor or the generator raises in the call for chunk   *)
(* j, the invocation ends with that error: exactly the j - 1 earlier       *)
(* chunks were converted, the tail never ran and no buffer was returned;   *)
(* and an invocation in which a planned call raises never reaches the      *)
(* concatenation.                                                          *)
C15_VcFailureIsFatal ==
    /\ (err \in {"extract_features", "infer"}) =>
          /\ pc = "error"
          /\ err = inp.failStage
          /\ Len(calls) = inp.failAt - 1
          /\ Len(audio_opt) = inp.failAt - 1
          /\ post = [rms |-> FALSE, resampled |-> FALSE, len |-> 0]
    /\ (pc \in {"concat", "done"} /\ inp.failAt >= 1) =>
          inp.failAt > PlannedCalls

C15_Witness ==
    /\ pc = "error"
    /\ err = "infer"
    /\ inp.failAt = 2
    /\ PlannedCalls = 3
    /\ Len(audio_opt) = 1
    /\ audio_opt[1] > 0

-----------------------------------------------------------------------------
(* Properties of numeric edge cases.                                       *)

(* The invocation met an empty waveform or a piece of no samples.          *)
NumericEdgeCase ==
    \/ inp.n = 0
    \/ \E j \in DOMAIN audio_opt : audio_opt[j] = 0

(* C16: an invocation that meets an empty waveform or a zero-length chunk  *)
(* (also a zero-length concatenated output) does not raise.                *)
C16_EdgeCasesDoNotRaise ==
    (pc # "idle" /\ NumericEdgeCase) => (pc # "error" /\ err = "")

-----------------------------------------------------------------------------
(* Properties of a silent input.                                           *)

(* The sample rate of the buffer VC.pipeline returns.                      *)
OutputRate(i) ==
    IF Resamples(i.tgt_sr, i.resample_sr) THEN i.resample_sr ELSE i.tgt_sr

(* C17, the duration: for two seconds of silence the returned buffer has   *)
(* as many samples as two seconds at the output rate.                      *)
C17_SilenceKeepsDuration ==
    (pc = "done" /\ inp \in SilentInputs) => post.len = 2 * OutputRate(inp)

-----------------------------------------------------------------------------
(* Properties of parameter validation.                                     *)

(* A parameter of the invocation lies outside its range: index_rate or     *)
(* rms_mix_rate outside [0, 1], protect outside [0, 0.5), a negative       *)
(* filter_radius, a resample_sr below 16000 that is neither the generator  *)
(* rate nor 0.                                                             *)
OutOfRange(i) ==
    \/ i.index_rate < 0 \/ i.index_rate > 100
    \/ i.rms_mix_rate < 0 \/ i.rms_mix_rate > 100
    \/ i.protect < 0 \/ i.protect >= 50
    \/ i.filter_radius < 0
    \/ (i.resample_sr < sr /\ i.resample_sr # i.tgt_sr /\ i.resample_sr # 0)

(* C18: an invocation with an out-of-range parameter is rejected before    *)
(* processing starts: nothing is planned, no estimator runs, VC.vc is not  *)
(* called and no buffer is returned.                                       *)
C18_OutOfRangeRejectedFirst ==
    (pc # "idle" /\ OutOfRange(inp)) =>
        /\ pc = "error"
        /\ ran = <<>>
        /\ calls = <<>>

-----------------------------------------------------------------------------
(* SpecRuns: a sequence of VC.pipeline invocations in one process, by what *)
(* each leaves behind. The only statements of VC.pipeline and of what it   *)
(* calls that write state outliving the invocation are in get_f0: the      *)
(* module dictionary input_audio_path2wav (lines 296, 333) and the cache   *)
(* of cache_harvest_f0 (line 27).                                          *)

MaxRuns == 2

RunPaths == {"a.wav", "b.wav", "c.wav"}

RunMethods == {Single("pm"), Single("harvest"), Hybrid(<<"harvest">>)}

RunArgs ==
    {[path |-> p, x |-> [len |-> 2, seed |-> <<100, 220>>], p_len |-> 2,
      f0_up_key |-> key, filter_radius |-> 3, f0_method |-> m, if_f0 |-> f,
      inp_f0 |-> NoOverride, x_pad |-> 1] :
        p \in RunPaths, m \in RunMethods, key \in {0, 12}, f \in {0, 1}}

InitRuns ==
    /\ PipeInit("off")
    /\ req = [pc |-> "off"]
    /\ sig = [pc |-> "off"]
    /\ f0 = [pc |-> "runs", runs |-> <<>>]

(* One invocation from its call to its return: get_f0 runs when if_f0 is 1 *)
(* (line 548).                                                             *)
Invoke ==
    /\ f0.pc = "runs"
    /\ Len(f0.runs) < MaxRuns
    /\ \E a \in RunArgs :
          /\ f0' = [f0 EXCEPT !.runs = Append(f0.runs, a)]
          /\ IF a.if_f0 = 1
             THEN \E r \in {get_f0(a, cache, path2wav)} :
                      /\ cache' = r.cache
                      /\ path2wav' = r.path2wav
                      /\ ran' = ran \o r.ran
             ELSE UNCHANGED <<cache, path2wav, ran>>
    /\ UNCHANGED <<req, pc, inp, index, idxLog, idxReads, opt_ts, s, t, k, calls,
                   audio_opt, pitchLen, post, err, sig>>

NextRuns == Invoke

SpecRuns == InitRuns /\ [][NextRuns]_vars

(* C19: apart from the pitch cache no structure grows with the number of   *)
(* invocations or of distinct input paths: input_audio_path2wav never      *)
(* holds the waveforms of two paths.                                       *)
C19_OnlyCacheSurvives ==
    (f0.pc = "runs") => Cardinality(DOMAIN path2wav) <= 1

-----------------------------------------------------------------------------
(* Properties of the retrieval blend.                                      *)

(* C20: VC.vc blends the features of a chunk with retrieved vectors only   *)
(* when pitch and pitchf are supplied and an index is loaded; without      *)
(* pitch conditioning no chunk is blended, whatever index_rate is.         *)
C20_BlendOnlyWithPitch ==
    \A j \in DOMAIN calls :
        calls[j].r.blended =>
            (calls[j].r.pitchIn # NoPitch /\ index # "None")

-----------------------------------------------------------------------------
(* SpecVc: one call of VC.vc, lines 403-465, frame by frame. A feature     *)
(* frame is one integer (a vector of one component), index_rate and        *)
(* protect are given in percent, and a fine pitch value is an integer      *)
(* number of hundredths of a hertz.                                        *)

MaxFeats == 2

FeatVals == {0, 400}

(* What index.search and the weighted sum over big_npy give for every      *)
(* query row.                                                              *)
NearVal == 800

(* Fine pitch of a frame: 0 (unvoiced), 0.78 Hz (a frame of 50 Hz after    *)
(* f0_up_key = -72) and 100 Hz.                                            *)
PitchVals == {0, 78, 10000}

OneHz == 100

(* A contour of n frames that repeats seed.                                *)
Contour(n, seed) == [j \in 1..n |-> seed[((j - 1) % Len(seed)) + 1]]

NoContour == [present |-> FALSE, f |-> <<>>]

(* The pitch arguments of a call whose audio0 has p0 whole windows: None,  *)
(* or a slice of p0 - 1 or p0 frames.                                      *)
VcPitches(p0) ==
    {NoContour}
    \cup {[present |-> TRUE, f |-> Contour(n, sd)] :
             n \in {p0 - 1, p0}, sd \in [1..2 -> PitchVals]}

VcArgs ==
    UNION {{[x |-> x, p0 |-> p0, pitchf |-> pf, index |-> idx,
             index_rate |-> r, protect |-> pr] :
               pf \in VcPitches(p0), idx \in {"None", "loaded"},
               r \in {0, 50, 100}, pr \in {0, 25, 50}} :
           x \in UNION {[1..n -> FeatVals] : n \in 0..MaxFeats},
           p0 \in 0..(HopsPerFeature * MaxFeats + 2)}

(* The extractor returns at most one frame per two windows of audio0, and  *)
(* at most one frame less.                                                 *)
VcCalls ==
    {a \in VcArgs :
        a.p0 \in (HopsPerFeature * Len(a.x))..(HopsPerFeature * Len(a.x) + 2)}

InitVc ==
    /\ PipeInit("off")
    /\ req = [pc |-> "off"]
    /\ f0 = [pc |-> "off"]
    /\ sig \in {[pc |-> "vc", a |-> a, feats |-> <<>>, feats0 |-> <<>>,
                 hasFeats0 |-> FALSE, rows |-> 0, blended |-> <<>>,
                 p_len |-> 0, pitchf |-> a.pitchf, log |-> <<>>,
                 err |-> "", gen |-> [called |-> FALSE]] : a \in VcCalls}

(* protect < 0.5 and pitch != None and pitchf != None, lines 407, 434, 446 *)
ProtectWanted(a) == a.protect < 50 /\ a.pitchf.present

(* Lines 405-408: extract_features, and feats0 = feats.clone() when the    *)
(* protection applies.                                                     *)
VcExtract ==
    /\ sig.pc = "vc"
    /\ sig' = [sig EXCEPT !.pc = "extracted",
                          !.feats = sig.a.x,
                          !.feats0 = IF ProtectWanted(sig.a) THEN sig.a.x
                                     ELSE <<>>,
                          !.hasFeats0 = ProtectWanted(sig.a),
                          !.log = Append(sig.log, "extract")]
    /\ UNCHANGED <<pipeVars, f0, req>>

(* npy = feats[0]: the query rows given to index.search, line 414.         *)
QueryRowsUpsampled(feats) == HopsPerFeature * Len(feats)

QueryRows(feats) == Len(feats)

(* Lines 428-431 on every frame.                                           *)
BlendFrames(feats, rate) ==
    [j \in DOMAIN feats |-> Blend(feats[j], NearVal, rate)]

(* Lines 409-431.                                                          *)
VcRetrieve ==
    /\ sig.pc = "extracted"
    /\ sig' = IF Retrieves(sig.a.index, sig.a.index_rate)
              THEN [sig EXCEPT
                       !.pc = "retrieved",
                       !.rows = QueryRows(sig.feats),
                       !.feats = BlendFrames(sig.feats, sig.a.index_rate),
                       !.log = Append(sig.log, "retrieve")]
              ELSE [sig EXCEPT !.pc = "retrieved"]
    /\ UNCHANGED <<pipeVars, f0, req>>

(* F.interpolate(feats.permute(0, 2, 1), scale_factor=2): the default mode *)
(* repeats every frame.                                                    *)
Interpolate2(q) ==
    [j \in 1..Upsampled(Len(q)) |-> q[((j - 1) \div HopsPerFeature) + 1]]

(* Lines 433-437: on a sequence of no frames line 433 raises and the call  *)
(* ends there.                                                             *)
VcInterpolate ==
    /\ sig.pc = "retrieved"
    /\ sig' = IF InterpolateRaises(Len(sig.feats))
              THEN [sig EXCEPT !.pc = "vc_error", !.err = "interpolate"]
              ELSE [sig EXCEPT
                       !.pc = "upsampled",
                       !.feats = Interpolate2(sig.feats),
                       !.blended = Interpolate2(sig.feats),
                       !.feats0 = IF ProtectWanted(sig.a)
                                  THEN Interpolate2(sig.feats0)
                                  ELSE sig.feats0,
                       !.log = Append(sig.log, "interpolate")]
    /\ UNCHANGED <<pipeVars, f0, req>>

(* Lines 439-444: p_len and the pitch slices cut to it.                    *)
VcPLen ==
    /\ sig.pc = "upsampled"
    /\ sig' = IF Len(sig.feats) < sig.a.p0
              THEN [sig EXCEPT
                       !.pc = "sized",
                       !.p_len = Len(sig.feats),
                       !.pitchf =
                           IF sig.a.pitchf.present
                           THEN [present |-> TRUE,
                                 f |-> SubSeq(sig.a.pitchf.f, 1,
                                              Min(Len(sig.feats),
                                                  Len(sig.a.pitchf.f)))]
                           ELSE sig.a.pitchf]
              ELSE [sig EXCEPT !.pc = "sized", !.p_len = sig.a.p0]
    /\ UNCHANGED <<pipeVars, f0, req>>

(* Lines 447-449 on one frame: pitchff[pitchf > 0] = 1, then               *)
(* pitchff[pitchf < 1] = protect; the weight in percent.                   *)
ProtectWeight(pf, protect) ==
    LET w1 == IF pf > 0 THEN 100 ELSE pf
    IN  IF pf < OneHz THEN protect ELSE w1

(* feats * pitchff + feats0 * (1 - pitchff), line 451: pitchff of one      *)
(* frame is broadcast over the frames of feats, any other difference in    *)
(* the number of frames raises RuntimeError.                               *)
ProtectRaises(feats, pf) == Len(pf) # Len(feats) /\ Len(pf) # 1

ProtectFrames(feats, feats0, pf, protect) ==
    [j \in DOMAIN feats |->
        LET w == ProtectWeight(pf[IF Len(pf) = 1 THEN 1 ELSE j], protect)
        IN  (feats[j] * w + feats0[j] * (100 - w)) \div 100]

(* Lines 446-452.                                                          *)
VcProtect ==
    /\ sig.pc = "sized"
    /\ sig' = IF ProtectWanted(sig.a)
              THEN IF ProtectRaises(sig.feats, sig.pitchf.f)
                   THEN [sig EXCEPT !.pc = "vc_error", !.err = "protect"]
                   ELSE [sig EXCEPT
                            !.pc = "protected",
                            !.feats = ProtectFrames(sig.feats, sig.feats0,
                                                    sig.pitchf.f,
                                                    sig.a.protect),
                            !.log = Append(sig.log, "protect")]
              ELSE [sig EXCEPT !.pc = "protected"]
    /\ UNCHANGED <<pipeVars, f0, req>>

(* Lines 453-465: net_g.infer with or without pitch and pitchf.            *)
VcInfer ==
    /\ sig.pc = "protected"
    /\ sig' = [sig EXCEPT
                  !.pc = "synthesized",
                  !.gen = [called |-> TRUE, feats |-> sig.feats,
                           p_len |-> sig.p_len, pitchf |-> sig.pitchf],
                  !.log = Append(sig.log, "infer")]
    /\ UNCHANGED <<pipeVars, f0, req>>

NextVc ==
    VcExtract \/ VcRetrieve \/ VcInterpolate \/ VcPLen \/ VcProtect \/ VcInfer

SpecVc == InitVc /\ [][NextVc]_vars

(* The pre-retrieval features at the rate of the pitch frames.             *)
PreRetrieval == Interpolate2(sig.a.x)

(* The fine pitch of frame j as the protection blend reads it.             *)
FinePitchAt(j) == sig.pitchf.f[IF Len(sig.pitchf.f) = 1 THEN 1 ELSE j]

(* C21: the protection acts exactly when protect < 0.5 and a contour is    *)
(* present: a voiced frame (fine pitch above 0) keeps the retrieval-       *)
(* blended vector, an unvoiced frame (fine pitch 0) becomes                *)
(* protect * blended + (1 - protect) * pre-retrieval; otherwise the        *)
(* features pass through unchanged.                                        *)
C21_ProtectExactlyUnvoiced ==
    (sig.pc \in {"protected", "synthesized"}) =>
        IF ProtectWanted(sig.a)
        THEN \A j \in DOMAIN sig.feats :
                sig.feats[j] =
                    IF FinePitchAt(j) > 0 THEN sig.blended[j]
                    ELSE (sig.a.protect * sig.blended[j]
                          + (100 - sig.a.protect) * PreRetrieval[j]) \div 100
        ELSE sig.feats = sig.blended

(* The stages of the call so far are those of order, in its order.         *)
StagesFollow(order) ==
    \A a \in DOMAIN sig.log :
        /\ \E q \in DOMAIN order : order[q] = sig.log[a]
        /\ \A b \in DOMAIN sig.log :
              a < b => \E q, r \in DOMAIN order :
                          q < r /\ order[q] = sig.log[a] /\ order[r] = sig.log[b]

(* The call blended its features with retrieved vectors.                   *)
Retrieved == \E a \in DOMAIN sig.log : sig.log[a] = "retrieve"

(* C22 as stated: the stages run in the order extraction, upsampling,      *)
(* retrieval blend, protection blend, synthesis, and the index is queried  *)
(* once per pitch frame (per upsampled feature frame).                     *)
C22_UpsampleThenRetrieve ==
    (sig.pc # "off") =>
        /\ StagesFollow(<<"extract", "interpolate", "retrieve", "protect",
                          "infer">>)
        /\ Retrieved => sig.rows = Upsampled(Len(sig.a.x))

(* C22 amended: the stages run in the order extraction, retrieval blend,   *)
(* upsampling, protection blend, synthesis; the retrieval blend operates   *)
(* on the extracted sequence before it is upsampled, with one query per    *)
(* extracted feature frame.                                                *)
C22_RetrieveThenUpsample ==
    (sig.pc # "off") =>
        /\ StagesFollow(<<"extract", "retrieve", "interpolate", "protect",
                          "infer">>)
        /\ Retrieved => sig.rows = Len(sig.a.x)

C22_Witness ==
    /\ sig.pc = "synthesized"
    /\ sig.log = <<"extract", "retrieve", "interpolate", "protect", "infer">>
    /\ Len(sig.a.x) = 2
    /\ sig.rows = 2
    /\ Len(sig.gen.feats) = 4

-----------------------------------------------------------------------------
(* Properties of the hybrid median.                                        *)

(* The first call used hybrid mode with two or more known methods.         *)
HybridOfSeveral ==
    /\ f0.pc = "called"
    /\ f0.method.hybrid
    /\ Len(f0.method.names) >= 2
    /\ \A j \in DOMAIN f0.method.names : f0.method.names[j] \in HybridKnown

(* C23: in hybrid mode with two or more methods, whatever the lengths of   *)
(* the methods' contours, the call does not raise and returns contours of  *)
(* one common length of which every frame is the median of the methods'    *)
(* values at that frame (scaled by the transposition, and with the frames  *)
(* of the f0 file, if one is given, in their place).                       *)
C23_HybridMedianAnyLengths ==
    HybridOfSeveral =>
        /\ ~f0.raised
        /\ \A j \in DOMAIN f0.method.names :
              Len(f0.res)
                  = Len(HybridStack(WithMethod(f0.a, f0.method),
                                    f0.method.names,
                                    EstOut("harvest", f0.a.x))[j].c)
        /\ f0.res = Overridden(Scale(HybridMedian(
                                         HybridStack(
                                             WithMethod(f0.a, f0.method),
                                             f0.method.names,
                                             EstOut("harvest", f0.a.x))),
                                     f0.a.f0_up_key),
                               f0.a)

-----------------------------------------------------------------------------
(* Properties of the pitch conditioning switch.                            *)

(* get_f0 has not been called: no contour is held and no call of it        *)
(* raised.                                                                 *)
F0NotCalled == pitchLen = NoPitch /\ err # "get_f0"

(* C24: with if_f0 != 1 the invocation never calls get_f0, never touches   *)
(* the pitch cache or input_audio_path2wav, and every generator call is    *)
(* made without pitch arguments; with if_f0 == 1 every generator call      *)
(* receives them.                                                          *)
C24_PitchArgsFollowSwitch ==
    (pc # "idle") =>
        IF inp.if_f0 # 1
        THEN /\ F0NotCalled
             /\ ran = <<>>
             /\ cache = EmptyDict
             /\ path2wav = EmptyDict
             /\ \A j \in DOMAIN calls :
                   calls[j].r.pitchIn = NoPitch /\ calls[j].r.pitch = NoPitch
        ELSE \A j \in DOMAIN calls :
                   calls[j].r.pitchIn # NoPitch /\ calls[j].r.pitch # NoPitch

C24_Witness ==
    /\ pc = "done"
    /\ inp.if_f0 = 2
    /\ inp.f0_method = Single("harvest")
    /\ Len(calls) >= 2
    /\ \A j \in DOMAIN calls : calls[j].r.pitch = NoPitch
    /\ cache = EmptyDict

-----------------------------------------------------------------------------
(* Properties of the trimming.                                             *)

(* C25: for every chunk and every context pad, x_pad = 0 included, the     *)
(* piece appended to audio_opt is the generator's segment without          *)
(* t_pad_tgt samples at each end: its length is the generated length minus *)
(* 2 * t_pad_tgt.                                                          *)
C25_TrimmedByPadBothEnds ==
    \A j \in DOMAIN audio_opt :
        audio_opt[j]
            = calls[j].r.out - 2 * t_pad_tgt(inp.cfg, inp.tgt_sr)

-----------------------------------------------------------------------------
(* Properties of the cache when the waveform behind a path changes.        *)

(* C26: when get_f0 with harvest is called for one input path first with   *)
(* waveform A and later with a different waveform B, the second call       *)
(* returns the harvest contour of B (what a call with an empty cache       *)
(* returns), and the cache then holds the contour of B.                    *)
C26_ChangedWaveformRecomputed ==
    (f0.pc = "changed" /\ f0.method \in HarvestFamily) =>
        /\ f0.res2 = get_f0(f0.a2, EmptyDict, EmptyDict).f0
        /\ cache[f0.a.path] = get_f0(f0.a2, EmptyDict, EmptyDict).cache[f0.a.path]

-----------------------------------------------------------------------------
(* Properties of the raw cuts.                                             *)

(* The earliest offset in [lo, hi) at which the envelope is minimal.       *)
QuietestIn(dips, lo, hi) ==
    IF \E d \in dips : lo <= d /\ d < hi
    THEN SetMin({d \in dips : lo <= d /\ d < hi})
    ELSE lo

(* The neighbourhood [t - t_query, t + t_query) of the target tt, inside   *)
(* [0, len(audio)).                                                        *)
Neighbourhood(c, n, tt) ==
    [lo |-> Max(0, tt - t_query(c)), hi |-> Min(n, tt + t_query(c))]

(* C27: when the padded length exceeds t_max, planning does not raise and  *)
(* yields one raw cut for every multiple t of t_center below len(audio);   *)
(* each raw cut lies in [t - t_query, t + t_query) and in [0, len(audio)), *)
(* at the earliest offset of that neighbourhood where the envelope is      *)
(* minimal; for every configuration, t_query > t_center included.          *)
C27_RawCutsQuietestInReach ==
    (pc # "idle" /\ inp.n > FiltPadLen /\ NeedsCuts(inp.cfg, inp.n)) =>
        /\ err # "min"
        /\ Planned =>
              /\ Len(opt_ts) = (inp.n - 1) \div t_center(inp.cfg)
              /\ \A j \in DOMAIN opt_ts :
                    LET nb == Neighbourhood(inp.cfg, inp.n,
                                            j * t_center(inp.cfg))
                    IN  /\ nb.lo <= opt_ts[j]
                        /\ opt_ts[j] < nb.hi
                        /\ opt_ts[j] = QuietestIn(inp.dips, nb.lo, nb.hi)

-----------------------------------------------------------------------------
(* Properties of the pitch slices handed to the generator.                 *)

(* C28: at every generator call with pitch conditioning, for every chunk,  *)
(* cut position and number of frames returned by the extractor, the pitch  *)
(* slices have exactly p_len frames (the length passed in the same call)   *)
(* and as many frames as the feature sequence of the protection blend.     *)
C28_PitchSlicesMatchPLen ==
    \A j \in DOMAIN calls :
        calls[j].r.pitchIn # NoPitch =>
            /\ calls[j].r.pitch = calls[j].r.p_len
            /\ calls[j].r.pitch = calls[j].r.frames

-----------------------------------------------------------------------------
(* SpecOverride: the f0 override of get_f0, lines 348-359, on lengths. The *)
(* file read by VC.pipeline (lines 535-545) is given by the span of its    *)
(* time column, max - min, in milliseconds; aliased says that f0 is the    *)
(* cached harvest array or a view of it (harvest with filter_radius <= 2,  *)
(* hybrid[harvest]).                                                       *)

SpanMillis == {0, 10, 1000, 1005, 327000, 327660, 327670, 328000, 400000,
               655350, 700000}

ContourFrames == {100, 451, 40000}

InitOverride ==
    /\ PipeInit("off")
    /\ req = [pc |-> "off"]
    /\ sig = [pc |-> "off"]
    /\ f0 \in {[pc |-> "inp_f0", span |-> sp, frames |-> n, x_pad |-> xp,
                 aliased |-> al] :
                  sp \in SpanMillis, n \in ContourFrames, xp \in 0..MaxXPad,
                  al \in BOOLEAN}

(* Lines 349-359: delta_t, replace_f0 over range(delta_t) (empty for a     *)
(* delta_t below 1), and the frames of f0 from x_pad * tf0 on that are     *)
(* overwritten; cacheWritten is the number of frames of the cached harvest *)
(* array that the assignment of line 357 overwrites.                       *)
F0Override ==
    /\ f0.pc = "inp_f0"
    /\ \E d \in DeltaT(f0.span) :
          f0' = [pc |-> "overridden", span |-> f0.span, frames |-> f0.frames,
                 x_pad |-> f0.x_pad, aliased |-> f0.aliased, delta_t |-> d,
                 replace_f0 |-> Max(d, 0),
                 shape |-> OverrideShape(f0.frames, f0.x_pad, d),
                 cacheWritten |-> IF f0.aliased
                                  THEN OverrideShape(f0.frames, f0.x_pad, d)
                                  ELSE 0]
    /\ UNCHANGED <<pipeVars, sig, req>>

NextOverride == F0Override

SpecOverride == InitOverride /\ [][NextOverride]_vars

(* C29: for every time span of the override file, spans above 327 seconds  *)
(* included, delta_t is round((max - min) * 100 + 1) (either neighbour     *)
(* where the product lies halfway between two integers): the conversion to *)
(* int16 never wraps.                                                      *)
C29_DeltaTNeverWraps ==
    (f0.pc = "overridden") =>
        LET frames == f0.span * 100 + 1000
        IN  IF frames % 1000 = 500
            THEN f0.delta_t \in {frames \div 1000, frames \div 1000 + 1}
            ELSE f0.delta_t = RintDiv(frames, 1000)

-----------------------------------------------------------------------------
(* SpecHandlers: one request served by handler of src/handler.py           *)
(* ("serverless"), handler of src/src/handler.py ("runpod"),               *)
(* generate_cover ("generate") or generate_cover_base64                    *)
(* ("generate_base64") of src/src/api_server.py, by what becomes of the    *)
(* temporary input file and of the cover file. The four share one shape:   *)
(* validation, the file saved under `with NamedTemporaryFile(delete=False)`*)
(* and then try / except Exception / finally around song_cover_pipeline    *)
(* and the reading of the cover.                                           *)

Endpoints == {"serverless", "runpod", "generate", "generate_base64"}

IsApi(ep) == ep \in {"generate", "generate_base64"}

(* What happens to the request outside the handler's code: what the      *)
(* request holds (valid; rejected by a check; malformed, so that a check   *)
(* itself raises, as with job = {"input": None}), how saving the temporary *)
(* file goes, whether song_cover_pipeline returns or raises, whether the   *)
(* cover file it names can be read and whether it left its input file in   *)
(* place. Only generate_cover waits for the upload while the file is open. *)
SaveOutcomes(ep) ==
    {"ok", "create_fails", "write_fails"}
    \cup (IF ep = "generate" THEN {"upload_raises", "cancelled"} ELSE {})

Requests ==
    {q \in [ep : Endpoints, input : {"valid", "rejected", "malformed"},
            save : {"ok", "create_fails", "write_fails", "upload_raises",
                    "cancelled"},
            pipe : {"returns", "raises"}, coverMade : BOOLEAN,
            inputKept : BOOLEAN] :
        q.save \in SaveOutcomes(q.ep)}

InitHandlers ==
    /\ PipeInit("off")
    /\ f0 = [pc |-> "off"]
    /\ sig = [pc |-> "off"]
    /\ req \in {[pc |-> "received", q |-> q, temp |-> FALSE, cover |-> FALSE,
                 coverBound |-> FALSE, path |-> "", result |-> ""] :
                   q \in Requests}

(* What the caller gets when the handler ends with an error: the runpod    *)
(* handler has no outer try statement, the serverless handler returns an   *)
(* error dictionary, the endpoints raise HTTPException.                    *)
Failure(ep, inner) ==
    IF IsApi(ep) THEN "HTTPException"
    ELSE IF ep = "runpod" /\ ~inner THEN "raised"
    ELSE "error"

(* The checks before the file is created (src/handler.py lines 76-113,     *)
(* src/src/handler.py lines 41-58): a failed check returns an error (the   *)
(* endpoints raise HTTPException); an exception raised by a check is       *)
(* caught by the outer try statement, which the runpod handler lacks.      *)
HValidate ==
    /\ req.pc = "received"
    /\ req' = IF req.q.input = "valid"
              THEN [req EXCEPT !.pc = "validated"]
              ELSE IF req.q.input = "rejected"
              THEN [req EXCEPT !.pc = "returned", !.path = "rejected",
                               !.result = Failure(req.q.ep, TRUE)]
              ELSE [req EXCEPT !.pc = "returned", !.path = "malformed",
                               !.result = Failure(req.q.ep, FALSE)]
    /\ UNCHANGED <<pipeVars, f0, sig>>

(* tempfile.NamedTemporaryFile(suffix=..., delete=False), src/handler.py   *)
(* line 116: the file exists from then on; when the creation itself raises *)
(* (a suffix taken from the request that names no file) there is no file.  *)
(* It is before the try statement that cleans up.                          *)
HCreate ==
    /\ req.pc = "validated"
    /\ req' = IF req.q.save = "create_fails"
              THEN [req EXCEPT !.pc = "returned", !.path = "save_failed",
                               !.result = Failure(req.q.ep, FALSE)]
              ELSE [req EXCEPT !.pc = "created", !.temp = TRUE]
    /\ UNCHANGED <<pipeVars, f0, sig>>

(* content = await audio_file.read(), src/src/api_server.py line 149,      *)
(* inside the with block: the coroutine is suspended with the file created *)
(* and empty; a cancellation there is a CancelledError, which no           *)
(* `except Exception` catches.                                             *)
HUpload ==
    /\ req.pc = "created"
    /\ req.q.ep = "generate"
    /\ req' = IF req.q.save = "cancelled"
              THEN [req EXCEPT !.pc = "returned", !.path = "cancelled",
                               !.result = "CancelledError"]
              ELSE IF req.q.save = "upload_raises"
              THEN [req EXCEPT !.pc = "returned", !.path = "save_failed",
                               !.result = Failure(req.q.ep, FALSE)]
              ELSE [req EXCEPT !.pc = "uploaded"]
    /\ UNCHANGED <<pipeVars, f0, sig>>

(* temp_file.write(...) and the end of the with block, src/handler.py      *)
(* lines 117-118: an exception leaves the handler's code before the try    *)
(* statement that cleans up, and the file stays.                           *)
HWrite ==
    /\ req.pc = IF req.q.ep = "generate" THEN "uploaded" ELSE "created"
    /\ req' = IF req.q.save = "write_fails"
              THEN [req EXCEPT !.pc = "returned", !.path = "save_failed",
                               !.result = Failure(req.q.ep, FALSE)]
              ELSE [req EXCEPT !.pc = "saved"]
    /\ UNCHANGED <<pipeVars, f0, sig>>

(* cover_path = song_cover_pipeline(...) (src/handler.py lines 124-132).   *)
HPipeline ==
    /\ req.pc = "saved"
    /\ req' = IF req.q.pipe = "raises"
              THEN [req EXCEPT !.pc = "except", !.path = "pipeline_raised",
                               !.temp = req.q.inputKept]
              ELSE [req EXCEPT !.pc = "ran", !.temp = req.q.inputKept,
                               !.cover = req.q.coverMade,
                               !.coverBound = TRUE]
    /\ UNCHANGED <<pipeVars, f0, sig>>

(* with open(cover_path, 'rb') (src/handler.py lines 135-139).             *)
HRead ==
    /\ req.pc = "ran"
    /\ req' = IF req.cover
              THEN [req EXCEPT !.pc = "read"]
              ELSE [req EXCEPT !.pc = "except", !.path = "read_failed"]
    /\ UNCHANGED <<pipeVars, f0, sig>>

(* The end of the try block: the two handlers unlink the temporary file    *)
(* (os.unlink raises when it is gone) and the cover, src/handler.py lines  *)
(* 142-155; the endpoints go straight to their return statement.           *)
HSuccess ==
    /\ req.pc = "read"
    /\ req' = IF IsApi(req.q.ep)
              THEN [req EXCEPT !.pc = "finally", !.path = "success",
                               !.result = "success"]
              ELSE IF ~req.temp
              THEN [req EXCEPT !.pc = "except", !.path = "unlink_failed"]
              ELSE [req EXCEPT !.pc = "finally", !.path = "success",
                               !.result = "success", !.temp = FALSE,
                               !.cover = FALSE]
    /\ UNCHANGED <<pipeVars, f0, sig>>

(* except Exception (src/handler.py lines 157-161).                        *)
HExcept ==
    /\ req.pc = "except"
    /\ req' = [req EXCEPT !.pc = "finally",
                          !.result = Failure(req.q.ep, TRUE)]
    /\ UNCHANGED <<pipeVars, f0, sig>>

(* finally: the temporary file is unlinked when it exists; the endpoints   *)
(* also unlink the cover when cover_path is bound (src/src/api_server.py   *)
(* lines 191-196, src/handler.py lines 162-165).                           *)
FinallyCoverOnly(r) ==
    [r EXCEPT !.pc = "returned",
              !.cover = IF IsApi(r.q.ep) /\ r.coverBound THEN FALSE
                        ELSE r.cover]

Finally(r) ==
    [r EXCEPT !.pc = "returned",
              !.temp = FALSE,
              !.cover = IF IsApi(r.q.ep) /\ r.coverBound THEN FALSE
                        ELSE r.cover]

HFinally ==
    /\ req.pc = "finally"
    /\ req' = Finally(req)
    /\ UNCHANGED <<pipeVars, f0, sig>>

NextHandlers ==
    HValidate \/ HCreate \/ HUpload \/ HWrite \/ HPipeline \/ HRead
    \/ HSuccess \/ HExcept \/ HFinally

SpecHandlers == InitHandlers /\ [][NextHandlers]_vars

(* The request went through the try statement of the handler.              *)
ServedPaths == {"success", "pipeline_raised", "read_failed", "unlink_failed"}

(* C30: for every request that passed validation, in the two handlers and  *)
(* the two endpoints, the temporary input file no longer exists when the   *)
(* call returns, on success, when song_cover_pipeline raised and when      *)
(* reading the cover failed.                                               *)
C30_TempFileGoneOnReturn ==
    (req.pc = "returned" /\ req.path \in ServedPaths) => ~req.temp

C30_Witness ==
    /\ req.pc = "returned"
    /\ req.q.ep = "generate"
    /\ req.path = "read_failed"
    /\ req.q.inputKept
    /\ req.result = "HTTPException"
    /\ ~req.temp

=============================================================================
